---- MODULE Spec2Model ----
(***************************************************************************)
(* seer: the preview pipeline of the terminal file browser (src/main.go).  *)
(*                                                                         *)
(* The bubbletea control loop owns one `model` value; Update handles one   *)
(* message at a time and returns the new model and an optional command.    *)
(* A command is a closure that runs off the loop and posts exactly one     *)
(* previewLoadedMsg back.  Strings are sequences of one-character strings, *)
(* so that formatting, separators and substring search are computed.       *)
(* The status line (model.status) and the mouse text selection are         *)
(* presentation-only and are left out of the state.                        *)
(***************************************************************************)
EXTENDS Integers, Sequences, FiniteSets, TLC

\* ---------------------------------------------------------------- bounds
MaxRequests == 2        \* cap on model.requestID (the counter is unbounded)
MaxQuery == 1           \* cap on the length of model.searchQuery
MaxWidth == 52          \* distinct terminal widths fed to the cache on its own
MaxInserts == 58        \* cap on the insertions into the cache on its own
MaxPathLen == 2         \* longest path fed to previewKey on its own
MaxEdges == 3           \* most edges of a flow graph fed to asciiFlowchart
MaxNameLen == 1         \* longest generated name or label of a sequence message
MaxDiagramLines == 2    \* most lines of a diagram source fed to the renderers
MaxKeys == 2            \* most keys of the outer JSON object fed to the renderer
MaxRankEdges == 4       \* most edges of a graph fed to the ranking alone
MaxDialogWidth == 70    \* widest terminal the delete dialog is laid out for
MaxFileName == 50       \* longest name of a file to delete
MaxParticipants == 6    \* most participants of a sequence diagram fed to the layout
MaxEntries == 9         \* most entries of a listing fed to the file list window
MaxPaneHeight == 12     \* tallest left pane the file list window is laid out for

\* ------------------------------------------------------ program constants
previewCacheMax == 50
NanosPerSecond == 1000000000

\* ---------------------------------------------------------------- strings
Digit == <<"0", "1", "2", "3", "4", "5", "6", "7", "8", "9">>

RECURSIVE Digits(_)
Digits(n) == IF n < 10 THEN <<Digit[n + 1]>>
             ELSE Digits(n \div 10) \o <<Digit[(n % 10) + 1]>>

\* fmt's %d verb: a minus sign for negatives, then the decimal digits.
Itoa(n) == IF n < 0 THEN <<"-">> \o Digits(0 - n) ELSE Digits(n)

\* A time at or after 1970 is <<hi, lo, nsec>>: hi * 10^9 + lo seconds and nsec
\* nanoseconds since the epoch, so that the three numbers are the limbs, in base
\* 10^9, of the nanoseconds since the epoch.  2^63 and 2^64 in the same limbs:
Pow63 == <<9, 223372036, 854775808>>
Pow64 == <<18, 446744073, 709551616>>
WideLess(a, b) ==
    \/ a[1] < b[1]
    \/ a[1] = b[1] /\ a[2] < b[2]
    \/ a[1] = b[1] /\ a[2] = b[2] /\ a[3] < b[3]
\* a - b for a >= b, limb by limb with borrow.
WideSub(a, b) ==
    LET b3 == IF a[3] < b[3] THEN 1 ELSE 0
        b2 == IF a[2] - b3 < b[2] THEN 1 ELSE 0
    IN <<a[1] - b2 - b[1],
         a[2] - b3 - b[2] + b2 * NanosPerSecond,
         a[3] - b[3] + b3 * NanosPerSecond>>

\* time.Time.UnixNano: seconds * 1e9 + nanoseconds in int64 arithmetic, which
\* wraps modulo 2^64 (times below 2^64 + 2^63 nanoseconds are covered).
UnixNano(t) ==
    IF WideLess(t, Pow63) THEN [neg |-> FALSE, mag |-> t]
    ELSE IF WideLess(t, Pow64) THEN [neg |-> TRUE, mag |-> WideSub(Pow64, t)]
    ELSE [neg |-> FALSE, mag |-> WideSub(t, Pow64)]

\* One limb below the leading one: nine digits, zero padded.
Pad(n) == [i \in 1..(9 - Len(Digits(n))) |-> "0"] \o Digits(n)

\* fmt's %d verb on an int64 held as sign and limbs.
Itoa64(x) ==
    (IF x.neg THEN <<"-">> ELSE <<>>) \o
    (IF x.mag[1] > 0 THEN Digits(x.mag[1]) \o Pad(x.mag[2]) \o Pad(x.mag[3])
     ELSE IF x.mag[2] > 0 THEN Digits(x.mag[2]) \o Pad(x.mag[3])
     ELSE Digits(x.mag[3]))

previewKey(path, modTime, size, width, height) ==
    path \o <<"|">> \o Itoa64(UnixNano(modTime)) \o <<"|">> \o Itoa(size)
         \o <<"|">> \o Itoa(width) \o <<"|">> \o Itoa(height)

min(a, b) == IF a < b THEN a ELSE b
max(a, b) == IF a > b THEN a ELSE b

HasPrefix(s, p) == Len(s) >= Len(p) /\ SubSeq(s, 1, Len(p)) = p

\* strings.Contains
Contains(s, sub) ==
    \E i \in 0..(Len(s) - Len(sub)) : SubSeq(s, i + 1, i + Len(sub)) = sub

Upper == <<"A", "B", "D", "H", "Z", "G", "N", "P">>
Lower == <<"a", "b", "d", "h", "z", "g", "n", "p">>
LowerChar(c) == IF \E i \in 1..Len(Upper) : Upper[i] = c
                THEN Lower[CHOOSE i \in 1..Len(Upper) : Upper[i] = c]
                ELSE c
ToLower(s) == [i \in 1..Len(s) |-> LowerChar(s[i])]

\* Byte order of the characters that occur in file names.
CharOrder == <<".", "/", "A", "B", "D", "H", "Z", "a", "b", "d", "h", "z", "|">>
CharRank(c) == CHOOSE i \in 1..Len(CharOrder) : CharOrder[i] = c

RECURSIVE StrLess(_, _)
StrLess(a, b) ==
    IF Len(b) = 0 THEN FALSE
    ELSE IF Len(a) = 0 THEN TRUE
    ELSE IF a[1] = b[1] THEN StrLess(Tail(a), Tail(b))
    ELSE CharRank(a[1]) < CharRank(b[1])

\* ------------------------------------------------------------- file system
\* The directory tree the browser runs in.  lines is the number of lines the
\* rendered preview of the node has.
Tree == {
    [path |-> <<"/", "d">>, parent |-> <<"/">>, name |-> <<"d">>,
     isDir |-> TRUE, size |-> 64, modTime |-> <<0, 0, 7>>, lines |-> 3],
    [path |-> <<"/", "a">>, parent |-> <<"/">>, name |-> <<"a">>,
     isDir |-> FALSE, size |-> 5, modTime |-> <<0, 0, 8>>, lines |-> 20],
    [path |-> <<"/", ".", "h">>, parent |-> <<"/">>, name |-> <<".", "h">>,
     isDir |-> FALSE, size |-> 0, modTime |-> <<0, 1, 0>>, lines |-> 1] }

RootDir == <<"/">>
StartDirs == {RootDir}
AllPaths == {n.path : n \in Tree} \cup {RootDir}
Node(path) == CHOOSE n \in Tree : n.path = path

\* Terminal sizes a tea.WindowSizeMsg may carry.
Sizes == {<<80, 24>>}
\* Outcomes of os.ReadDir at start-up and inside a handler (TRUE: it succeeds).
\* Once the browser runs, directory reads are taken to succeed.
StartReads == BOOLEAN
HandlerReads == {TRUE}
\* Printable keys typed into the search box.
SearchRunes == {"a"}

\* filepath.Join(dir, name) and filepath.Dir(path) on clean absolute paths.
Join(dir, name) == IF dir = RootDir THEN dir \o name ELSE dir \o <<"/">> \o name
Dir(path) ==
    LET slashes == {i \in 1..Len(path) : path[i] = "/"}
        lastSlash == CHOOSE i \in slashes : \A j \in slashes : j <= i
    IN IF lastSlash = 1 THEN RootDir ELSE SubSeq(path, 1, lastSlash - 1)

Entry(n) == [name |-> n.name, path |-> Join(n.parent, n.name), isDir |-> n.isDir,
             size |-> n.size, modTime |-> n.modTime]

\* The less function handed to sort.Slice.
EntryLess(a, b) == IF a.isDir # b.isDir THEN a.isDir
                   ELSE StrLess(ToLower(a.name), ToLower(b.name))

RECURSIVE SortEntries(_)
SortEntries(S) ==
    IF S = {} THEN <<>>
    ELSE LET first == CHOOSE x \in S : \A y \in S \ {x} : EntryLess(x, y)
         IN <<first>> \o SortEntries(S \ {first})

\* listDir: the children of path that exist in files, hidden ones filtered,
\* directories first and then by lower-cased name.  ok = FALSE is os.ReadDir failing.
listDir(files, path, showHidden, ok) ==
    IF ~ok \/ path \notin files THEN [err |-> TRUE, entries |-> <<>>]
    ELSE [err |-> FALSE,
          entries |-> SortEntries({Entry(n) : n \in
                        {x \in Tree : /\ x.parent = path
                                      /\ x.path \in files
                                      /\ (showHidden \/ ~HasPrefix(x.name, <<".">>))}})]

\* ------------------------------------------------------------ model value
EmptyCache == [k \in {} |-> <<>>]
NoPreview == <<>>

initialModel(files, cwd, ok) ==
    [cwd |-> cwd,
     allEntries |-> listDir(files, cwd, FALSE, ok).entries,
     entries |-> listDir(files, cwd, FALSE, ok).entries,
     selected |-> 0,
     showHidden |-> FALSE,
     preview |-> NoPreview,
     width |-> 0,
     height |-> 0,
     previewOffset |-> 0,
     loading |-> FALSE,
     requestID |-> 0,
     cache |-> EmptyCache,
     cacheOrder |-> <<>>,
     searching |-> FALSE,
     searchQuery |-> <<>>,
     confirmingDelete |-> FALSE,
     deleteTarget |-> <<>>]

layoutDimensions(m) ==
    LET leftW == max(26, m.width \div 3)
    IN [leftW |-> leftW, rightW |-> m.width - leftW - 1, bodyH |-> max(4, m.height - 4)]

previewPageSize(h) == max(3, h \div 3)

previewViewportHeight(m) == max(1, max(4, m.height - 4) - 2)

\* What buildPreview returns for a path at a pane size, and the text Update
\* publishes for a failed computation.
PreviewContent(path, width, height) == <<"content", path, width, height>>
PreviewError(path) == <<"preview error: ", path>>

\* len(strings.Split(preview, "\n"))
PreviewLines(preview) ==
    IF preview = NoPreview THEN 1
    ELSE IF preview[1] = "content" THEN Node(preview[2]).lines
    ELSE 1

clampPreviewOffset(m) ==
    LET off == IF m.previewOffset < 0 THEN 0 ELSE m.previewOffset
        maxStart == max(0, PreviewLines(m.preview) - previewViewportHeight(m))
    IN IF m.preview = NoPreview THEN [m EXCEPT !.previewOffset = 0]
       ELSE [m EXCEPT !.previewOffset = IF off > maxStart THEN maxStart ELSE off]

applySearch(m, entries) ==
    IF m.searchQuery = <<>> THEN entries
    ELSE SelectSeq(entries, LAMBDA e : Contains(ToLower(e.name), ToLower(m.searchQuery)))

\* cacheSet: remember the key's insertion position unless it is present, store
\* the value, then drop from the front while more than previewCacheMax keys are held.
RECURSIVE Evict(_, _)
Evict(cache, order) ==
    IF Len(order) > previewCacheMax
    THEN Evict([k \in DOMAIN cache \ {order[1]} |-> cache[k]], Tail(order))
    ELSE [cache |-> cache, cacheOrder |-> order]

\* Variant: the eviction loop is missing.
cacheSetNoEviction(cache, cacheOrder, key, value) ==
    [cache |-> [k \in DOMAIN cache \cup {key} |-> IF k = key THEN value ELSE cache[k]],
     cacheOrder |-> IF key \in DOMAIN cache THEN cacheOrder ELSE Append(cacheOrder, key)]

\* Variant: a full cache gives up its most recently inserted key (LIFO).
cacheSetEvictsNewest(cache, cacheOrder, key, value) ==
    IF key \in DOMAIN cache \/ Len(cacheOrder) < previewCacheMax
    THEN [cache |-> [k \in DOMAIN cache \cup {key} |-> IF k = key THEN value ELSE cache[k]],
          cacheOrder |-> IF key \in DOMAIN cache THEN cacheOrder ELSE Append(cacheOrder, key)]
    ELSE LET newest == cacheOrder[Len(cacheOrder)]
         IN [cache |-> [k \in (DOMAIN cache \ {newest}) \cup {key} |->
                          IF k = key THEN value ELSE cache[k]],
             cacheOrder |-> Append(SubSeq(cacheOrder, 1, Len(cacheOrder) - 1), key)]

cacheSet(cache, cacheOrder, key, value) ==
    LET order == IF key \in DOMAIN cache THEN cacheOrder ELSE Append(cacheOrder, key)
        stored == [k \in DOMAIN cache \cup {key} |-> IF k = key THEN value ELSE cache[k]]
    IN Evict(stored, order)

\* Variant: a cache hit refreshes the key's position in the eviction order.
requestPreviewTouchesOrder(m) ==
    IF Len(m.entries) = 0
    THEN [m |-> [m EXCEPT !.preview = NoPreview, !.loading = FALSE],
          cmd |-> <<>>, rp |-> "empty"]
    ELSE
      LET picked == m.entries[m.selected + 1]
          cacheKey == previewKey(picked.path, picked.modTime, picked.size, m.width, m.height)
          dims == layoutDimensions(m)
      IN IF cacheKey \in DOMAIN m.cache
         THEN [m |-> [m EXCEPT !.preview = m.cache[cacheKey], !.loading = FALSE,
                               !.cacheOrder = Append(SelectSeq(m.cacheOrder,
                                                LAMBDA k : k # cacheKey), cacheKey)],
               cmd |-> <<>>, rp |-> "hit"]
         ELSE [m |-> [m EXCEPT !.requestID = m.requestID + 1, !.loading = TRUE],
               cmd |-> <<[requestID |-> m.requestID + 1,
                          cacheKey |-> cacheKey,
                          path |-> picked.path,
                          width |-> max(40, dims.rightW),
                          height |-> max(8, dims.bodyH)]>>,
               rp |-> "miss"]

\* Variant: an empty listing returns early without clearing the preview.
requestPreviewKeepsPreview(m) ==
    IF Len(m.entries) = 0
    THEN [m |-> m, cmd |-> <<>>, rp |-> "empty"]
    ELSE
      LET picked == m.entries[m.selected + 1]
          cacheKey == previewKey(picked.path, picked.modTime, picked.size, m.width, m.height)
          dims == layoutDimensions(m)
      IN IF cacheKey \in DOMAIN m.cache
         THEN [m |-> [m EXCEPT !.preview = m.cache[cacheKey], !.loading = FALSE],
               cmd |-> <<>>, rp |-> "hit"]
         ELSE [m |-> [m EXCEPT !.requestID = m.requestID + 1, !.loading = TRUE],
               cmd |-> <<[requestID |-> m.requestID + 1,
                          cacheKey |-> cacheKey,
                          path |-> picked.path,
                          width |-> max(40, dims.rightW),
                          height |-> max(8, dims.bodyH)]>>,
               rp |-> "miss"]

\* requestPreview: the updated model, the scheduled command (no or one
\* computation, with the values its closure captured) and the branch taken.
requestPreview(m) ==
    IF Len(m.entries) = 0
    THEN [m |-> [m EXCEPT !.preview = NoPreview, !.loading = FALSE],
          cmd |-> <<>>, rp |-> "empty"]
    ELSE IF m.selected < 0 \/ m.selected >= Len(m.entries)
    THEN [m |-> m, cmd |-> <<>>, rp |-> "panic"]
    ELSE
      LET picked == m.entries[m.selected + 1]
          cacheKey == previewKey(picked.path, picked.modTime, picked.size, m.width, m.height)
          dims == layoutDimensions(m)
      IN IF cacheKey \in DOMAIN m.cache
         THEN [m |-> [m EXCEPT !.preview = m.cache[cacheKey], !.loading = FALSE],
               cmd |-> <<>>, rp |-> "hit"]
         ELSE [m |-> [m EXCEPT !.requestID = m.requestID + 1, !.loading = TRUE],
               cmd |-> <<[requestID |-> m.requestID + 1,
                          cacheKey |-> cacheKey,
                          path |-> picked.path,
                          width |-> max(40, dims.rightW),
                          height |-> max(8, dims.bodyH)]>>,
               rp |-> "miss"]

navigate(m, idx) == requestPreview([m EXCEPT !.selected = idx, !.previewOffset = 0])

changeDir(m, files, path, ok) ==
    LET listed == listDir(files, path, m.showHidden, ok)
    IN IF listed.err THEN m
       ELSE [m EXCEPT !.cwd = path, !.allEntries = listed.entries,
                      !.entries = listed.entries, !.selected = 0,
                      !.previewOffset = 0, !.searchQuery = <<>>, !.searching = FALSE]

\* moveToTrash renames the entry (a directory with all it holds) out of the tree.
moveToTrash(files, path) == {p \in files : p # path /\ ~HasPrefix(p, path \o <<"/">>)}

\* ------------------------------------------------------------------ state
VARIABLES
    m,          \* the model value the control loop holds
    files,      \* the paths that exist on disk
    inflight,   \* scheduled computations whose previewLoadedMsg is not yet consumed
    issued,     \* history: the request id of every scheduled computation, in order
    latest,     \* history: the computation scheduled last
    last,       \* history: the message handled last and the branches it took
    inserted,   \* history: the keys cacheSet was given while absent, in order
    probe,      \* the two inputs previewKey was applied to, with their keys
    pc          \* "new" after construction, "run" once Init ran, "quit", "panic";
                \* "cacheSet" and "previewKey" when the function is driven on its own

vars == <<m, files, inflight, issued, latest, last, inserted, probe, pc>>

NoProbe == <<>>

NoMsg == [requestID |-> 0, cacheKey |-> <<>>, path |-> <<>>, width |-> 0,
          height |-> 0, seq |-> 0]
Tag(c, n) == [requestID |-> c.requestID, cacheKey |-> c.cacheKey, path |-> c.path,
              width |-> c.width, height |-> c.height, seq |-> n]

\* A handler result that schedules nothing and did not call requestPreview.
NoCmd(m2) == [m |-> m2, cmd |-> <<>>, rp |-> "none"]

\* One Update call returning (r.m, r.cmd); the runtime starts the command.
Handle(op, res, files2) ==
    \E r \in {res} :
      /\ r.m.requestID <= MaxRequests
      /\ m' = r.m
      /\ files' = files2
      /\ inflight' = inflight \cup {Tag(r.cmd[i], Len(issued) + i) : i \in 1..Len(r.cmd)}
      /\ issued' = issued \o [i \in 1..Len(r.cmd) |-> r.cmd[i].requestID]
      /\ latest' = IF r.cmd = <<>> THEN latest ELSE Tag(r.cmd[1], Len(issued) + 1)
      /\ last' = [rp |-> r.rp, dl |-> "none", msg |-> NoMsg]
      /\ pc' = IF r.rp = "panic" THEN "panic" ELSE "run"
      /\ UNCHANGED <<inserted, probe>>

Init ==
    /\ files = AllPaths
    /\ \E cwd \in StartDirs, ok \in StartReads : m = initialModel(files, cwd, ok)
    /\ inflight = {}
    /\ issued = <<>>
    /\ latest = NoMsg
    /\ inserted = <<>>
    /\ probe = NoProbe
    /\ last = [rp |-> "none", dl |-> "none", msg |-> NoMsg]
    /\ pc = "new"

\* model.Init has a value receiver: requestPreview runs on a copy of the model,
\* the command it returns is started, the copy is dropped.
ProgInit ==
    /\ pc = "new"
    /\ LET r == requestPreview(m)
       IN Handle("init", [m |-> m, cmd |-> r.cmd, rp |-> r.rp], files)

Running == pc = "run"
\* Keys that carry exactly one rune; in search mode they extend the query.
RuneKeys == {"j", "k", "g", "G", "l", "h", ".", "/", "r", "q"}
\* Variant: a pending delete confirmation does not keep keys from the main switch.
NormalWhileConfirming(key) == /\ Running
                              /\ ~(m.searching /\ key \in RuneKeys)

\* A key press that reaches the main switch of Update.
Normal(key) == /\ Running
               /\ ~m.confirmingDelete
               /\ ~(m.searching /\ key \in RuneKeys)

WindowSize ==
    /\ Running
    /\ \E sz \in Sizes :
         Handle("resize",
                requestPreview(clampPreviewOffset([m EXCEPT !.width = sz[1], !.height = sz[2]])),
                files)

\* Variant: the selection is kept as it was when the listing shrinks.
RelistedKeepsSelection(m1, entries) ==
    [m1 EXCEPT !.allEntries = entries,
               !.entries = applySearch(m1, entries)]

\* The listing reloaded after a deletion or by "r": the selection is clamped.
Relisted(m1, entries) ==
    LET shown == applySearch(m1, entries)
    IN [m1 EXCEPT !.allEntries = entries,
                  !.entries = shown,
                  !.selected = IF m1.selected >= Len(shown) THEN max(0, Len(shown) - 1)
                               ELSE m1.selected]

ConfirmDelete ==
    /\ Running /\ m.confirmingDelete
    /\ \E trashOk \in BOOLEAN, listOk \in HandlerReads :
         LET moved == trashOk /\ m.deleteTarget \in files
             files2 == IF moved THEN moveToTrash(files, m.deleteTarget) ELSE files
             listed == listDir(files2, m.cwd, m.showHidden, listOk)
             m1 == IF moved /\ ~listed.err THEN Relisted(m, listed.entries) ELSE m
         IN Handle("confirm",
                   requestPreview([m1 EXCEPT !.confirmingDelete = FALSE, !.deleteTarget = <<>>]),
                   files2)

CancelDelete ==
    /\ Running /\ m.confirmingDelete
    /\ Handle("cancel", NoCmd([m EXCEPT !.confirmingDelete = FALSE, !.deleteTarget = <<>>]), files)

\* Any other key while the confirmation is pending is swallowed.
ConfirmIgnore ==
    /\ Running /\ m.confirmingDelete
    /\ Handle("swallow", NoCmd(m), files)

SearchInput ==
    /\ Running /\ ~m.confirmingDelete /\ m.searching
    /\ Len(m.searchQuery) < MaxQuery
    /\ \E r \in SearchRunes :
         LET m1 == [m EXCEPT !.searchQuery = Append(m.searchQuery, r)]
         IN Handle("type",
                   requestPreview([m1 EXCEPT !.entries = applySearch(m1, m.allEntries),
                                             !.selected = 0]),
                   files)

Quit ==
    /\ \E key \in {"q", "ctrl+c"} : Normal(key)
    /\ pc' = "quit"
    /\ last' = [rp |-> "none", dl |-> "none", msg |-> NoMsg]
    /\ UNCHANGED <<m, files, inflight, issued, latest, inserted, probe>>

Down ==
    /\ \E key \in {"j", "down"} : Normal(key)
    /\ Handle("down", IF m.selected < Len(m.entries) - 1 THEN navigate(m, m.selected + 1)
                      ELSE NoCmd(m), files)

Up ==
    /\ \E key \in {"k", "up"} : Normal(key)
    /\ Handle("up", IF m.selected > 0 THEN navigate(m, m.selected - 1) ELSE NoCmd(m), files)

Home ==
    /\ \E key \in {"g", "home"} : Normal(key)
    /\ Handle("home", navigate(m, 0), files)

End ==
    /\ \E key \in {"G", "end"} : Normal(key)
    /\ Handle("end", IF Len(m.entries) > 0 THEN navigate(m, Len(m.entries) - 1)
                     ELSE NoCmd(m), files)

Open ==
    /\ \E key \in {"l", "right", "enter"} : Normal(key)
    /\ IF Len(m.entries) = 0 THEN Handle("open", NoCmd(m), files)
       ELSE IF m.selected >= Len(m.entries)
       THEN Handle("open", [m |-> m, cmd |-> <<>>, rp |-> "panic"], files)
       ELSE LET picked == m.entries[m.selected + 1]
            IN IF picked.isDir
               THEN \E ok \in HandlerReads :
                      Handle("open", requestPreview(changeDir(m, files, picked.path, ok)), files)
               ELSE Handle("open", requestPreview(m), files)

Back ==
    \E key \in {"h", "left", "backspace"} :
      /\ Normal(key)
      /\ IF m.searching
         THEN IF key = "backspace" /\ Len(m.searchQuery) > 0
              THEN LET m1 == [m EXCEPT !.searchQuery =
                                         SubSeq(m.searchQuery, 1, Len(m.searchQuery) - 1)]
                   IN Handle("back",
                             requestPreview([m1 EXCEPT !.entries = applySearch(m1, m.allEntries),
                                                       !.selected = 0]),
                             files)
              ELSE Handle("back", NoCmd(m), files)
         ELSE IF Dir(m.cwd) # m.cwd
              THEN \E ok \in HandlerReads :
                     Handle("back", requestPreview(changeDir(m, files, Dir(m.cwd), ok)), files)
              ELSE Handle("back", NoCmd(m), files)

DeleteKey ==
    /\ Normal("delete")
    /\ Handle("delete",
              IF Len(m.entries) > 0 /\ m.selected < Len(m.entries)
              THEN NoCmd([m EXCEPT !.confirmingDelete = TRUE,
                                   !.deleteTarget = m.entries[m.selected + 1].path])
              ELSE NoCmd(m),
              files)

\* The index the "." handler restores: the first entry named prevName, else 0.
RestoredIndex(entries, prevName) ==
    LET hits == {i \in 1..Len(entries) : entries[i].name = prevName}
    IN IF hits = {} THEN 0 ELSE (CHOOSE i \in hits : \A j \in hits : i <= j) - 1

ToggleHidden ==
    /\ Normal(".")
    /\ \E ok \in HandlerReads :
         LET prevName == IF m.selected < Len(m.entries) THEN m.entries[m.selected + 1].name
                         ELSE <<>>
             m1 == [m EXCEPT !.showHidden = ~m.showHidden]
             listed == listDir(files, m.cwd, m1.showHidden, ok)
             shown == applySearch(m1, listed.entries)
             m2 == IF listed.err THEN m1
                   ELSE [m1 EXCEPT !.allEntries = listed.entries,
                                   !.entries = shown,
                                   !.selected = RestoredIndex(shown, prevName),
                                   !.previewOffset = 0]
         IN Handle("hidden", requestPreview(m2), files)

StartSearch ==
    /\ Normal("/")
    /\ Handle("search", NoCmd([m EXCEPT !.searching = TRUE, !.searchQuery = <<>>]), files)

Escape ==
    /\ Normal("esc")
    /\ Handle("esc",
              IF m.searching
              THEN requestPreview([m EXCEPT !.searching = FALSE, !.searchQuery = <<>>,
                                            !.entries = m.allEntries, !.selected = 0])
              ELSE NoCmd(m),
              files)

PageDown ==
    /\ \E key \in {"ctrl+d", "pagedown"} : Normal(key)
    /\ Handle("pagedown",
              NoCmd(clampPreviewOffset(
                      [m EXCEPT !.previewOffset = m.previewOffset + previewPageSize(m.height)])),
              files)

PageUp ==
    /\ \E key \in {"ctrl+u", "pageup"} : Normal(key)
    /\ Handle("pageup",
              NoCmd(clampPreviewOffset(
                      [m EXCEPT !.previewOffset = m.previewOffset - previewPageSize(m.height)])),
              files)

Reload ==
    /\ Normal("r")
    /\ \E ok \in HandlerReads :
         LET listed == listDir(files, m.cwd, m.showHidden, ok)
         IN Handle("reload",
                   requestPreview(IF listed.err THEN m ELSE Relisted(m, listed.entries)),
                   files)

\* A wheel event over the preview pane; elsewhere it changes nothing.
MouseWheel ==
    /\ Running
    /\ \E inPane \in BOOLEAN, dir \in {1, -1} :
         LET scroll == max(1, previewPageSize(m.height) \div 3)
             dims == layoutDimensions(m)
         IN IF inPane /\ dims.rightW >= 1
            THEN Handle("wheel",
                        NoCmd(clampPreviewOffset(
                                [m EXCEPT !.previewOffset = m.previewOffset + dir * scroll])),
                        files)
            ELSE Handle("wheel", NoCmd(m), files)

\* Variant: the request id of the message is not compared with the current one.
previewLoadedAnyId(m0, msg, ok) ==
    IF ~ok
    THEN [m0 EXCEPT !.loading = FALSE, !.preview = PreviewError(msg.path)]
    ELSE LET content == PreviewContent(msg.path, msg.width, msg.height)
             set == cacheSet(m0.cache, m0.cacheOrder, msg.cacheKey, content)
         IN clampPreviewOffset([m0 EXCEPT !.loading = FALSE,
                                          !.cache = set.cache,
                                          !.cacheOrder = set.cacheOrder,
                                          !.preview = content])

\* Variant: the result is stored before its error is looked at.
previewLoadedStoresFirst(m0, msg, ok) ==
    IF msg.requestID # m0.requestID THEN m0
    ELSE LET content == IF ok THEN PreviewContent(msg.path, msg.width, msg.height)
                        ELSE NoPreview
             set == cacheSet(m0.cache, m0.cacheOrder, msg.cacheKey, content)
             m1 == [m0 EXCEPT !.loading = FALSE,
                              !.cache = set.cache,
                              !.cacheOrder = set.cacheOrder]
         IN IF ~ok THEN [m1 EXCEPT !.preview = PreviewError(msg.path)]
            ELSE clampPreviewOffset([m1 EXCEPT !.preview = content])

\* Variant: a failed computation leaves the loading flag as it was.
previewLoadedErrorKeepsLoading(m0, msg, ok) ==
    IF msg.requestID # m0.requestID THEN m0
    ELSE IF ~ok
    THEN [m0 EXCEPT !.preview = PreviewError(msg.path)]
    ELSE LET content == PreviewContent(msg.path, msg.width, msg.height)
             set == cacheSet(m0.cache, m0.cacheOrder, msg.cacheKey, content)
         IN clampPreviewOffset([m0 EXCEPT !.loading = FALSE,
                                          !.cache = set.cache,
                                          !.cacheOrder = set.cacheOrder,
                                          !.preview = content])

\* Update's previewLoadedMsg case.  ok: the message carries no error.
previewLoaded(m0, msg, ok) ==
    IF msg.requestID # m0.requestID THEN m0
    ELSE IF ~ok
    THEN [m0 EXCEPT !.loading = FALSE, !.preview = PreviewError(msg.path)]
    ELSE LET content == PreviewContent(msg.path, msg.width, msg.height)
             set == cacheSet(m0.cache, m0.cacheOrder, msg.cacheKey, content)
         IN clampPreviewOffset([m0 EXCEPT !.loading = FALSE,
                                          !.cache = set.cache,
                                          !.cacheOrder = set.cacheOrder,
                                          !.preview = content])

\* A computation finishes (ok: buildPreview returned no error) and Update
\* consumes its previewLoadedMsg.
PreviewLoaded ==
    /\ Running
    /\ \E t \in inflight, ok \in BOOLEAN :
         /\ m' = previewLoaded(m, t, ok)
         /\ inflight' = inflight \ {t}
         /\ last' = [rp |-> "none",
                     dl |-> IF t.requestID # m.requestID THEN "stale"
                            ELSE IF ok THEN "stored" ELSE "error",
                     msg |-> t]
         /\ inserted' = IF t.requestID = m.requestID /\ ok /\ t.cacheKey \notin DOMAIN m.cache
                        THEN Append(inserted, t.cacheKey) ELSE inserted
         /\ UNCHANGED <<files, issued, latest, probe, pc>>

\* Browsing: every handler of Update but the delete dialog.
Next ==
    \/ ProgInit
    \/ WindowSize
    \/ SearchInput
    \/ Quit
    \/ Down
    \/ Up
    \/ Home
    \/ End
    \/ Open
    \/ Back
    \/ ToggleHidden
    \/ StartSearch
    \/ Escape
    \/ PageDown
    \/ PageUp
    \/ Reload
    \/ MouseWheel
    \/ PreviewLoaded

Spec == Init /\ [][Next]_vars

\* Deleting: the delete dialog with the navigation it needs.
NextTrash ==
    \/ ProgInit
    \/ WindowSize
    \/ Down
    \/ Up
    \/ Reload
    \/ DeleteKey
    \/ ConfirmDelete
    \/ CancelDelete
    \/ ConfirmIgnore
    \/ PreviewLoaded

SpecTrash == Init /\ [][NextTrash]_vars

\* Every handler of Update, the delete dialog included.
NextAll ==
    \/ Next
    \/ DeleteKey
    \/ ConfirmDelete
    \/ CancelDelete
    \/ ConfirmIgnore

SpecAll == Init /\ [][NextAll]_vars

\* ------------------------------------------------------- preview pipeline
\* The fingerprint of the selection, for a model with a selection.
CurrentKey(mm) ==
    previewKey(mm.entries[mm.selected + 1].path, mm.entries[mm.selected + 1].modTime,
               mm.entries[mm.selected + 1].size, mm.width, mm.height)

\* The content a computation renders.
ContentOf(t) == PreviewContent(t.path, t.width, t.height)

\* C1: a computation A is scheduled, then a computation B before A's result is
\* delivered; B's result is delivered and published; when A's result is
\* delivered afterwards the published preview is still B's.
StaleResultImmunity ==
    [][\A a \in inflight :
          (/\ inflight' = inflight \ {a}
           /\ a.seq < latest.seq
           /\ latest \notin inflight
           /\ m.preview = ContentOf(latest))
          => m'.preview = m.preview]_vars

\* C2: the request ids captured by the scheduled computations, in scheduling
\* order, are strictly increasing (so no two computations share an id).
RequestIdsStrictlyIncreasing ==
    \A i \in 1..Len(issued) : \A j \in 1..Len(issued) : i < j => issued[i] < issued[j]

\* C3: consuming a result whose request id is not the current one changes
\* neither preview, loading flag, cache, cache order, request counter nor
\* scroll offset, and schedules nothing.
StaleResultDiscarded ==
    [][\A t \in inflight :
          (inflight' = inflight \ {t} /\ t.requestID # m.requestID)
          => /\ m'.preview = m.preview
             /\ m'.loading = m.loading
             /\ m'.cache = m.cache
             /\ m'.cacheOrder = m.cacheOrder
             /\ m'.requestID = m.requestID
             /\ m'.previewOffset = m.previewOffset
             /\ issued' = issued]_vars

\* A superseded result was dropped while the newer computation is still loading.
StaleResultDropped ==
    /\ last.dl = "stale"
    /\ last.msg.requestID < m.requestID
    /\ m.loading
    /\ m.cacheOrder # <<>>

\* C6: consuming a current result that carries an error leaves the cache and
\* its order unchanged, clears loading and publishes the error text; and the
\* cache changes only when a current result without error is consumed.
ErrorsNeverCached ==
    [][/\ (last'.dl = "error" /\ inflight' # inflight)
          => /\ m'.cache = m.cache
             /\ m'.cacheOrder = m.cacheOrder
             /\ m'.loading = FALSE
             /\ m'.preview = PreviewError(last'.msg.path)
       /\ (m'.cache # m.cache \/ m'.cacheOrder # m.cacheOrder)
          => (last'.dl = "stored" /\ inflight' # inflight)]_vars

\* A current result with an error was consumed while the cache held entries.
ErrorPublished ==
    /\ last.dl = "error"
    /\ m.preview = PreviewError(last.msg.path)
    /\ m.cacheOrder # <<>>
    /\ last.msg.cacheKey \notin DOMAIN m.cache

\* C7: a requestPreview whose fingerprint is cached publishes the cached text,
\* schedules nothing and leaves request counter, cache and cache order as they were.
CacheHitFrame ==
    [][(/\ last'.rp # "none"
        /\ pc = "run"
        /\ Len(m'.entries) > 0
        /\ CurrentKey(m') \in DOMAIN m.cache)
       => /\ m'.preview = m.cache[CurrentKey(m')]
          /\ m'.loading = FALSE
          /\ inflight' = inflight
          /\ issued' = issued
          /\ m'.requestID = m.requestID
          /\ m'.cache = m.cache
          /\ m'.cacheOrder = m.cacheOrder]_vars

\* The oldest of several cached previews was served again.
CacheHitServed ==
    /\ last.rp = "hit"
    /\ Len(m.cacheOrder) >= 2
    /\ CurrentKey(m) = m.cacheOrder[1]
    /\ m.preview = m.cache[m.cacheOrder[1]]

\* C8: after a requestPreview that schedules a computation, the model that
\* consumes results is loading and its request id is the one the computation captured.
DispatchMarksLoading ==
    last.rp = "miss" => (m.loading /\ m.requestID = latest.requestID)

\* C9: with an empty visible list requestPreview clears preview and loading,
\* schedules nothing and leaves request counter and cache unchanged.
EmptyListClears ==
    [][(last'.rp # "none" /\ Len(m'.entries) = 0)
       => /\ m'.preview = NoPreview
          /\ m'.loading = FALSE
          /\ inflight' = inflight
          /\ issued' = issued
          /\ m'.requestID = m.requestID
          /\ m'.cache = m.cache
          /\ m'.cacheOrder = m.cacheOrder]_vars

\* requestPreview ran on an empty listing after previews had been loaded.
EmptyListRequested ==
    /\ last.rp = "empty"
    /\ Len(m.entries) = 0
    /\ m.preview = NoPreview
    /\ m.cacheOrder # <<>>
    /\ inflight # {}

\* ------------------------------------------------------ cacheSet on its own
\* The cache is fed the fingerprints of one file at growing terminal widths:
\* the next new width, a key it holds, or a key it has evicted.
CacheFile == Node(<<"/", "a">>)
CacheWidth(i) == 100 + i
CacheKey(i) == previewKey(CacheFile.path, CacheFile.modTime, CacheFile.size, CacheWidth(i), 24)
CacheValue(i) ==
    LET dims == layoutDimensions([width |-> CacheWidth(i), height |-> 24])
    IN PreviewContent(CacheFile.path, max(40, dims.rightW), max(8, dims.bodyH))
CacheKeys == [i \in 1..MaxWidth |-> CacheKey(i)]
CacheValues == [i \in 1..MaxWidth |-> CacheValue(i)]
WidthsUsed ==
    LET seen == {inserted[j] : j \in 1..Len(inserted)}
    IN {i \in 1..MaxWidth : CacheKeys[i] \in seen}

InitCache ==
    /\ files = AllPaths
    /\ m = initialModel(files, RootDir, TRUE)
    /\ inflight = {}
    /\ issued = <<>>
    /\ latest = NoMsg
    /\ last = [rp |-> "none", dl |-> "none", msg |-> NoMsg]
    /\ inserted = <<>>
    /\ probe = NoProbe
    /\ pc = "cacheSet"

CacheSetCall ==
    /\ pc = "cacheSet"
    /\ \E i \in WidthsUsed \cup ({Cardinality(WidthsUsed) + 1} \cap (1..MaxWidth)) :
         /\ CacheKeys[i] \in DOMAIN m.cache \/ Len(inserted) < MaxInserts
         /\ LET set == cacheSet(m.cache, m.cacheOrder, CacheKeys[i], CacheValues[i])
            IN m' = [m EXCEPT !.cache = set.cache, !.cacheOrder = set.cacheOrder]
         /\ inserted' = IF CacheKeys[i] \in DOMAIN m.cache THEN inserted
                        ELSE Append(inserted, CacheKeys[i])
    /\ UNCHANGED <<files, inflight, issued, latest, last, probe, pc>>

NextCache == CacheSetCall

SpecCache == InitCache /\ [][NextCache]_vars

\* C4: the preview cache never holds more than previewCacheMax entries.
CacheBounded == Cardinality(DOMAIN m.cache) <= previewCacheMax

\* The cache is full and has already evicted.
CacheFullAfterEviction ==
    /\ Cardinality(DOMAIN m.cache) = previewCacheMax
    /\ Len(inserted) > previewCacheMax + 1

\* The keys given to cacheSet while absent, most recent previewCacheMax of them.
RecentInsertions ==
    {inserted[j] : j \in max(1, Len(inserted) - previewCacheMax + 1)..Len(inserted)}
\* The key of the cache that was inserted longest ago.
OldestInserted ==
    inserted[max(1, Len(inserted) - previewCacheMax + 1)]

\* C5: eviction is FIFO by insertion order.  The cache holds exactly the
\* previewCacheMax most recently inserted keys (after 51 insertions the first
\* one is gone), and inserting a new key into a full cache removes exactly the
\* key inserted longest ago and keeps every other key with its value.
FifoEviction ==
    /\ [](DOMAIN m.cache = RecentInsertions)
    /\ [][\A i \in 1..MaxWidth :
            (/\ inserted' = Append(inserted, CacheKeys[i])
             /\ Cardinality(DOMAIN m.cache) = previewCacheMax)
            => /\ DOMAIN m'.cache = (DOMAIN m.cache \ {OldestInserted}) \cup {CacheKeys[i]}
               /\ \A k \in DOMAIN m.cache \ {OldestInserted} : m'.cache[k] = m.cache[k]
               /\ m'.cache[CacheKeys[i]] = CacheValues[i]]_vars

\* Fifty-one distinct keys were inserted: the first is gone, the rest are held.
FirstInsertedEvicted ==
    /\ Len(inserted) = previewCacheMax + 1
    /\ Cardinality({inserted[j] : j \in 1..Len(inserted)}) = previewCacheMax + 1
    /\ inserted[1] \notin DOMAIN m.cache
    /\ \A j \in 2..Len(inserted) : inserted[j] \in DOMAIN m.cache

\* ---------------------------------------------------- previewKey on its own
PathChars == {"a", "|", "1"}
KeyPaths == UNION {[1..n -> PathChars] : n \in 1..MaxPathLen}
KeyInputs ==
    [path : KeyPaths, modTime : {<<0, 0, 1>>, <<0, 0, 12>>, <<18, 446744073, 709551617>>}, size : {1, 12},
     width : {1, 12}, height : {1, 2}]
KeyOf(x) == previewKey(x.path, x.modTime, x.size, x.width, x.height)

InitKey ==
    /\ files = AllPaths
    /\ m = initialModel(files, RootDir, TRUE)
    /\ inflight = {}
    /\ issued = <<>>
    /\ latest = NoMsg
    /\ last = [rp |-> "none", dl |-> "none", msg |-> NoMsg]
    /\ inserted = <<>>
    /\ probe = NoProbe
    /\ pc = "previewKey"

KeyProbe ==
    /\ pc = "previewKey"
    /\ probe = NoProbe
    /\ \E a \in KeyInputs, b \in KeyInputs :
         probe' = [a |-> a, b |-> b, ka |-> KeyOf(a), kb |-> KeyOf(b)]
    /\ UNCHANGED <<m, files, inflight, issued, latest, last, inserted, pc>>

NextKey == KeyProbe

SpecKey == InitKey /\ [][NextKey]_vars

\* C10: the fingerprint is a deterministic and injective function of (path,
\* modification time, size, width, height): equal inputs give equal keys and
\* inputs that differ in any component give different keys.
FingerprintInjective ==
    probe # NoProbe => ((probe.ka = probe.kb) <=> (probe.a = probe.b))

\* ------------------------------------------------------------ wasted work
\* The computations in flight that a later dispatch has superseded.
Superseded == {a \in inflight : a.seq < latest.seq}

\* C19: at most one superseded background computation is in flight.
AtMostOneSupersededInFlight == Cardinality(Superseded) <= 1

\* ---------------------------------------------------------- asciiFlowchart
\* A parsed flow graph: nodeOrder lists the node ids in first-appearance
\* order, nodes maps an id to its label, edges lists [from, to] pairs of ids.
\* Ids and labels are sequences of characters.
registerMermaidNode(order, id) ==
    IF \E i \in 1..Len(order) : order[i] = id THEN order ELSE Append(order, id)

RECURSIVE NodeOrderOf(_, _)
NodeOrderOf(order, edges) ==
    IF edges = <<>> THEN order
    ELSE NodeOrderOf(registerMermaidNode(registerMermaidNode(order, edges[1].from),
                                         edges[1].to),
                     Tail(edges))

\* The graph parseMermaidGraph builds from a list of edges whose nodes all
\* carry the label given by labels.
GraphOf(edges, labels) ==
    LET order == NodeOrderOf(<<>>, edges)
    IN [nodeOrder |-> order,
        nodes |-> [id \in {order[i] : i \in 1..Len(order)} |-> labels[id]],
        edges |-> edges]

labelOf(g, id) == IF g.nodes[id] # <<>> THEN g.nodes[id] ELSE id
nodeBoxW(g, id) == Len(labelOf(g, id)) + 4

\* Adjacency and in-degree over the edges that are not self-edges.
succMap(g) ==
    [id \in DOMAIN g.nodes |->
        LET out == SelectSeq(g.edges, LAMBDA e : e.from # e.to /\ e.from = id)
        IN [i \in 1..Len(out) |-> out[i].to]]
tmpIn(g) ==
    [id \in DOMAIN g.nodes |->
        Cardinality({i \in 1..Len(g.edges) :
                        g.edges[i].from # g.edges[i].to /\ g.edges[i].to = id})]

\* Variant: a rank, once set, is never raised.
RECURSIVE RelaxFirstOnly(_, _, _, _, _)
RelaxFirstOnly(cur, succs, rank, pending, q) ==
    IF succs = <<>> THEN [rank |-> rank, pending |-> pending, q |-> q]
    ELSE LET next == Head(succs)
             rank2 == IF rank[next] = 0
                      THEN [rank EXCEPT ![next] = rank[cur] + 1] ELSE rank
             pending2 == [pending EXCEPT ![next] = @ - 1]
             q2 == IF pending2[next] = 0 THEN Append(q, next) ELSE q
         IN RelaxFirstOnly(cur, Tail(succs), rank2, pending2, q2)

\* The inner loop of the ranking: relax every edge leaving cur.
RECURSIVE Relax(_, _, _, _, _)
Relax(cur, succs, rank, pending, q) ==
    IF succs = <<>> THEN [rank |-> rank, pending |-> pending, q |-> q]
    ELSE LET next == Head(succs)
             rank2 == IF rank[cur] + 1 > rank[next]
                      THEN [rank EXCEPT ![next] = rank[cur] + 1] ELSE rank
             pending2 == [pending EXCEPT ![next] = @ - 1]
             q2 == IF pending2[next] = 0 THEN Append(q, next) ELSE q
         IN Relax(cur, Tail(succs), rank2, pending2, q2)

\* The outer loop: take nodes off the queue until it is empty.
RECURSIVE Kahn(_, _, _, _)
Kahn(succ, q, rank, pending) ==
    IF q = <<>> THEN rank
    ELSE LET r == Relax(Head(q), succ[Head(q)], rank, pending, Tail(q))
         IN Kahn(succ, r.q, r.rank, r.pending)

\* The sources in one of the orders a range over the map g.nodes may give.
Sources(g) == {id \in DOMAIN g.nodes : tmpIn(g)[id] = 0}
SourceOrders(g) ==
    {o \in [1..Cardinality(Sources(g)) -> Sources(g)] :
        \A i, j \in DOMAIN o : i # j => o[i] # o[j]}

\* Variant: only the first node without incoming edges is enqueued.
flowRankFirstSourceOnly(g, srcOrder) ==
    Kahn(succMap(g), SubSeq(srcOrder, 1, 1), [id \in DOMAIN g.nodes |-> 0], tmpIn(g))

\* A missing key of the Go map rank reads as 0.
flowRank(g, srcOrder) ==
    Kahn(succMap(g), srcOrder, [id \in DOMAIN g.nodes |-> 0], tmpIn(g))

flowHGap == 3

\* Variant: every edge that goes down, by any number of ranks, is drawn.
edgeIsDrawnAnyDescent(rank, e) == e.from # e.to /\ rank[e.from] < rank[e.to]

\* The test that lets an edge through to the drawing code.
edgeIsDrawn(rank, e) == e.from # e.to /\ rank[e.from] + 1 = rank[e.to]

\* asciiFlowchart up to the layout: ranks, positions, grid size, and for every
\* edge the grid cells its connector and arrowhead are written to.
asciiFlowchart(g, maxW, srcOrder) ==
    LET rank == flowRank(g, srcOrder)
        ids == DOMAIN g.nodes
        maxRank == CHOOSE r \in {rank[id] : id \in ids} \cup {0} :
                      \A id \in ids : rank[id] <= r
        levels == [r \in 0..maxRank |-> SelectSeq(g.nodeOrder, LAMBDA id : rank[id] = r)]
        RECURSIVE Before(_, _)
        Before(nodes, i) ==
            IF i = 1 THEN 0 ELSE Before(nodes, i - 1) + nodeBoxW(g, nodes[i - 1]) + flowHGap
        levelW == [r \in 0..maxRank |->
                      IF levels[r] = <<>> THEN 0
                      ELSE Before(levels[r], Len(levels[r]))
                           + nodeBoxW(g, levels[r][Len(levels[r])])]
        widest == CHOOSE w \in {levelW[r] : r \in 0..maxRank} \cup {1} :
                      \A r \in 0..maxRank : levelW[r] <= w /\ 1 <= w
        totalW == IF maxW > 0 /\ widest > maxW THEN maxW ELSE widest
        off == [r \in 0..maxRank |->
                   IF totalW - levelW[r] < 0 THEN 0 ELSE (totalW - levelW[r]) \div 2]
        indexIn(nodes, id) == CHOOSE i \in 1..Len(nodes) : nodes[i] = id
        nodeX == [id \in ids |->
                    Before(levels[rank[id]], indexIn(levels[rank[id]], id)) + off[rank[id]]]
        nodeY == [id \in ids |-> 5 * rank[id]]
        totalH == 5 * maxRank + 3
        cells(e) ==
            IF ~edgeIsDrawn(rank, e) THEN {}
            ELSE LET fcx == nodeX[e.from] + nodeBoxW(g, e.from) \div 2
                     tcx == nodeX[e.to] + nodeBoxW(g, e.to) \div 2
                     row1 == nodeY[e.from] + 3
                     written == {<<x, row1>> : x \in min(fcx, tcx)..max(fcx, tcx)}
                                  \cup {<<tcx, row1 + 1>>}
                 IN {c \in written : c[1] >= 0 /\ c[1] < totalW /\ c[2] >= 0 /\ c[2] < totalH}
    IN [rank |-> rank, maxRank |-> maxRank, levels |-> levels, nodeX |-> nodeX,
        nodeY |-> nodeY, totalW |-> totalW, totalH |-> totalH,
        connector |-> [i \in 1..Len(g.edges) |-> cells(g.edges[i])]]

\* The graphs asciiFlowchart is driven with: up to MaxEdges edges over three
\* ids, every node labelled by its id or by one long sentence.
FlowIds == {<<"A">>, <<"B">>, <<"C">>}
LongLabel == [i \in 1..160 |-> "x"]
FlowLabels == {[id \in FlowIds |-> <<>>], [id \in FlowIds |-> LongLabel]}
FlowEdges == UNION {[1..n -> [from : FlowIds, to : FlowIds]] : n \in 1..MaxEdges}
FlowWidths == {0, 80}

InitFlow ==
    /\ files = AllPaths
    /\ m = initialModel(files, RootDir, TRUE)
    /\ inflight = {}
    /\ issued = <<>>
    /\ latest = NoMsg
    /\ last = [rp |-> "none", dl |-> "none", msg |-> NoMsg]
    /\ inserted = <<>>
    /\ probe = NoProbe
    /\ pc = "asciiFlowchart"

FlowProbe ==
    /\ pc = "asciiFlowchart"
    /\ probe = NoProbe
    /\ \E edges \in FlowEdges, labels \in FlowLabels, maxW \in FlowWidths :
         LET g == GraphOf(edges, labels)
         IN \E srcOrder \in SourceOrders(g) :
              probe' = [g |-> g, maxW |-> maxW, srcOrder |-> srcOrder,
                        out |-> asciiFlowchart(g, maxW, srcOrder)]
    /\ UNCHANGED <<m, files, inflight, issued, latest, last, inserted, pc>>

NextFlow == FlowProbe

SpecFlow == InitFlow /\ [][NextFlow]_vars

\* The nodes with a non-self edge into id, and the nodes reachable from id
\* along one or more non-self edges.
FlowPreds(g, id) ==
    {g.edges[i].from : i \in {j \in 1..Len(g.edges) :
                                g.edges[j].to = id /\ g.edges[j].from # id}}
FlowSuccs(g, S) ==
    {g.edges[i].to : i \in {j \in 1..Len(g.edges) :
                              g.edges[j].from \in S /\ g.edges[j].from # g.edges[j].to}}
RECURSIVE FlowReach(_, _, _)
FlowReach(g, S, n) == IF n = 0 THEN S ELSE FlowReach(g, S \cup FlowSuccs(g, S), n - 1)
Acyclic(g) ==
    \A id \in DOMAIN g.nodes :
        id \notin FlowReach(g, FlowSuccs(g, {id}), Cardinality(DOMAIN g.nodes))
RECURSIVE LongestPath(_, _)
LongestPath(g, id) ==
    IF FlowPreds(g, id) = {} THEN 0
    ELSE LET ls == {LongestPath(g, p) : p \in FlowPreds(g, id)}
         IN 1 + CHOOSE l \in ls : \A k \in ls : k <= l

\* C14: in an acyclic graph the rank of every node is the length of the
\* longest path of non-self edges that leads to it from a node without
\* incoming edges (such nodes have rank 0).
RanksAreLongestPaths ==
    (probe # NoProbe /\ Acyclic(probe.g)) =>
        \A id \in DOMAIN probe.g.nodes : probe.out.rank[id] = LongestPath(probe.g, id)

\* A-->B, B-->C, A-->C is ranked A = 0, B = 1, C = 2.
RankExample ==
    /\ probe # NoProbe
    /\ probe.g.edges = << [from |-> <<"A">>, to |-> <<"B">>],
                          [from |-> <<"B">>, to |-> <<"C">>],
                          [from |-> <<"A">>, to |-> <<"C">>] >>
    /\ probe.out.rank[<<"A">>] = 0
    /\ probe.out.rank[<<"B">>] = 1
    /\ probe.out.rank[<<"C">>] = 2

\* An edge whose target is ranked one below its source and that is no self-edge.
AdjacentRank(i) ==
    /\ probe.g.edges[i].from # probe.g.edges[i].to
    /\ probe.out.rank[probe.g.edges[i].to] = probe.out.rank[probe.g.edges[i].from] + 1

\* C20 as stated: an edge gets a connector in the rendering if and only if it
\* is not a self-edge and its target is ranked exactly one below its source.
ConnectorIffAdjacentRank ==
    probe # NoProbe =>
        \A i \in 1..Len(probe.g.edges) : (probe.out.connector[i] # {}) <=> AdjacentRank(i)

\* C20 as amended: an edge gets a connector only if it is not a self-edge and
\* its target is ranked exactly one below its source, and in the rendering
\* without a maximum width every such edge gets one.
ConnectorOnlyAdjacentRank ==
    probe # NoProbe =>
        \A i \in 1..Len(probe.g.edges) :
            /\ (probe.out.connector[i] # {}) => AdjacentRank(i)
            /\ (AdjacentRank(i) /\ probe.maxW = 0) => probe.out.connector[i] # {}

\* A-->B and B-->C are drawn, A-->C is not.
ConnectorExample ==
    /\ probe # NoProbe
    /\ probe.maxW = 0
    /\ probe.g.edges = << [from |-> <<"A">>, to |-> <<"B">>],
                          [from |-> <<"B">>, to |-> <<"C">>],
                          [from |-> <<"A">>, to |-> <<"C">>] >>
    /\ probe.out.connector[1] # {}
    /\ probe.out.connector[2] # {}
    /\ probe.out.connector[3] = {}

\* ------------------------------------------------------- strings, continued
IsSpace(c) == c \in {" ", "\t", "\r", "\n"}

RECURSIVE TrimLeft(_)
TrimLeft(s) == IF s # <<>> /\ IsSpace(Head(s)) THEN TrimLeft(Tail(s)) ELSE s
RECURSIVE TrimRight(_)
TrimRight(s) ==
    IF s # <<>> /\ IsSpace(s[Len(s)]) THEN TrimRight(SubSeq(s, 1, Len(s) - 1)) ELSE s
\* strings.TrimSpace
TrimSpace(s) == TrimRight(TrimLeft(s))

\* strings.Index: the 0-based position of the first occurrence, or -1.
Index(s, sub) ==
    LET at == {i \in 0..(Len(s) - Len(sub)) : SubSeq(s, i + 1, i + Len(sub)) = sub}
    IN IF at = {} THEN -1 ELSE CHOOSE i \in at : \A j \in at : i <= j

\* strings.Split on a one-character separator.
RECURSIVE Split(_, _)
Split(s, sep) ==
    LET i == Index(s, <<sep>>)
    IN IF i < 0 THEN <<s>>
       ELSE <<SubSeq(s, 1, i)>> \o Split(SubSeq(s, i + 2, Len(s)), sep)

\* strings.Fields: the maximal runs of characters that are not white space.
RECURSIVE Fields(_)
Fields(s) ==
    LET t == TrimLeft(s)
        stops == {i \in 1..Len(t) : IsSpace(t[i])}
        end == IF stops = {} THEN Len(t) + 1 ELSE CHOOSE i \in stops : \A j \in stops : i <= j
    IN IF t = <<>> THEN <<>>
       ELSE <<SubSeq(t, 1, end - 1)>> \o Fields(SubSeq(t, end, Len(t)))

\* strings.Join
RECURSIVE JoinWith(_, _)
JoinWith(parts, sep) ==
    IF parts = <<>> THEN <<>>
    ELSE IF Len(parts) = 1 THEN parts[1]
    ELSE parts[1] \o sep \o JoinWith(Tail(parts), sep)

\* strings.EqualFold on the letters of the model.
EqualFold(a, b) == ToLower(a) = ToLower(b)

\* ----------------------------------------------------- parseSequenceDiagram
\* The arrow forms in the order the parser tries them, each with its dash style.
seqArrows ==
    << [s |-> <<"-", "-", ">", ">">>, dashed |-> TRUE],
       [s |-> <<"-", "-", ">">>, dashed |-> TRUE],
       [s |-> <<"-", ">", ">">>, dashed |-> FALSE],
       [s |-> <<"-", ">">>, dashed |-> FALSE],
       [s |-> <<"-", "-", "x">>, dashed |-> TRUE],
       [s |-> <<"-", "x">>, dashed |-> FALSE],
       [s |-> <<"-", "-", ")">>, dashed |-> TRUE],
       [s |-> <<"-", ")">>, dashed |-> FALSE] >>

seqAdd(participants, name) ==
    IF name # <<>> /\ ~\E i \in 1..Len(participants) : participants[i] = name
    THEN Append(participants, name) ELSE participants

\* The name a participant or actor line declares.
seqDeclared(fields) ==
    LET as == {i \in 1..Len(fields) : EqualFold(fields[i], <<"a", "s">>) /\ i + 1 <= Len(fields)}
    IN IF as = {} THEN fields[2]
       ELSE LET i == CHOOSE k \in as : \A j \in as : k <= j
            IN JoinWith(SubSeq(fields, i + 1, Len(fields)), <<" ">>)

\* Variant: the arrows are tried shortest first.
seqMatchShortestFirst(t, k, acc) ==
    LET order == <<4, 6, 8, 2, 3, 5, 7, 1>>
        found == {i \in 1..8 : Index(t, seqArrows[order[i]].s) >= 0}
    IN IF found = {} THEN acc
       ELSE LET op == seqArrows[order[CHOOSE i \in found : \A j \in found : i <= j]]
                idx == Index(t, op.s)
                from == TrimSpace(SubSeq(t, 1, idx))
                rest == TrimSpace(SubSeq(t, idx + Len(op.s) + 1, Len(t)))
                ci == Index(rest, <<":">>)
                to == IF ci >= 0 THEN TrimSpace(SubSeq(rest, 1, ci)) ELSE rest
                label == IF ci >= 0 THEN TrimSpace(SubSeq(rest, ci + 2, Len(rest))) ELSE <<>>
            IN IF from = <<>> \/ to = <<>> THEN acc
               ELSE [participants |-> seqAdd(seqAdd(acc.participants, from), to),
                     msgs |-> Append(acc.msgs, [from |-> from, to |-> to, label |-> label,
                                                dashed |-> op.dashed])]

\* The arrow loop on the line t, trying the forms from the k-th on.
RECURSIVE seqMatch(_, _, _)
seqMatch(t, k, acc) ==
    IF k > Len(seqArrows) THEN acc
    ELSE LET op == seqArrows[k]
             idx == Index(t, op.s)
         IN IF idx < 0 THEN seqMatch(t, k + 1, acc)
            ELSE LET from == TrimSpace(SubSeq(t, 1, idx))
                     rest == TrimSpace(SubSeq(t, idx + Len(op.s) + 1, Len(t)))
                     ci == Index(rest, <<":">>)
                     to == IF ci >= 0 THEN TrimSpace(SubSeq(rest, 1, ci)) ELSE rest
                     label == IF ci >= 0 THEN TrimSpace(SubSeq(rest, ci + 2, Len(rest)))
                              ELSE <<>>
                 IN IF from = <<>> \/ to = <<>> THEN acc
                    ELSE [participants |-> seqAdd(seqAdd(acc.participants, from), to),
                          msgs |-> Append(acc.msgs, [from |-> from, to |-> to,
                                                     label |-> label, dashed |-> op.dashed])]

seqPrefixParticipant == <<"p", "a", "r", "t", "i", "c", "i", "p", "a", "n", "t", " ">>
seqPrefixActor == <<"a", "c", "t", "o", "r", " ">>

\* One iteration of the line loop.
seqLine(line, acc) ==
    LET t == TrimSpace(line)
        lower == ToLower(t)
    IN IF t = <<>> \/ HasPrefix(t, <<"%", "%">>) THEN acc
       ELSE IF HasPrefix(lower, seqPrefixParticipant) \/ HasPrefix(lower, seqPrefixActor)
       THEN LET fields == Fields(t)
            IN IF Len(fields) < 2 THEN acc
               ELSE [acc EXCEPT !.participants = seqAdd(@, seqDeclared(fields))]
       ELSE seqMatch(t, 1, acc)

RECURSIVE seqLines(_, _)
seqLines(lines, acc) ==
    IF lines = <<>> THEN acc ELSE seqLines(Tail(lines), seqLine(Head(lines), acc))

parseSequenceDiagram(code) ==
    seqLines(Split(code, "\n"), [participants |-> <<>>, msgs |-> <<>>])

\* Message lines of the form X<arrow>Y: L.  X and Y are drawn from the
\* non-empty strings of up to MaxNameLen characters over SeqChars and a few
\* names, L from the strings over SeqLabelChars and two greetings.
SeqChars == {"A", ">", ":"}
SeqStrings == UNION {[1..n -> SeqChars] : n \in 1..MaxNameLen}
SeqAlice == <<"A", "l", "i", "c", "e">>
SeqBob == <<"B", "o", "b">>
SeqNames == SeqStrings \cup {SeqAlice, SeqBob, <<"a", "c", "t", "o", "r", " ", "A">>}
SeqLabelChars == {":", "H"}
SeqLabels ==
    UNION {[1..n -> SeqLabelChars] : n \in 0..MaxNameLen}
        \cup {<<"H", "e", "l", "l", "o">>, <<"H", "i">>}
SeqLineRecs == [X : SeqNames, arrow : 1..Len(seqArrows), Y : SeqNames, L : SeqLabels]
SeqHello == [X |-> SeqAlice, arrow |-> 3, Y |-> SeqBob, L |-> <<"H", "e", "l", "l", "o">>]
SeqDocs == {<<l>> : l \in SeqLineRecs} \cup {<<SeqHello, l>> : l \in SeqLineRecs}
SeqText(l) == l.X \o seqArrows[l.arrow].s \o l.Y \o <<":", " ">> \o l.L
SeqCode(doc) == JoinWith([i \in 1..Len(doc) |-> SeqText(doc[i])], <<"\n">>)

InitSequence ==
    /\ files = AllPaths
    /\ m = initialModel(files, RootDir, TRUE)
    /\ inflight = {}
    /\ issued = <<>>
    /\ latest = NoMsg
    /\ last = [rp |-> "none", dl |-> "none", msg |-> NoMsg]
    /\ inserted = <<>>
    /\ probe = NoProbe
    /\ pc = "parseSequenceDiagram"

SequenceProbe ==
    /\ pc = "parseSequenceDiagram"
    /\ probe = NoProbe
    /\ \E doc \in SeqDocs :
         probe' = [doc |-> doc, out |-> parseSequenceDiagram(SeqCode(doc))]
    /\ UNCHANGED <<m, files, inflight, issued, latest, last, inserted, pc>>

NextSequence == SequenceProbe

SpecSequence == InitSequence /\ [][NextSequence]_vars

\* The names of a list in first-seen order without duplicates.
RECURSIVE FirstSeen(_)
FirstSeen(names) ==
    IF names = <<>> THEN <<>>
    ELSE LET front == FirstSeen(SubSeq(names, 1, Len(names) - 1))
             name == names[Len(names)]
         IN IF \E i \in 1..Len(front) : front[i] = name THEN front ELSE Append(front, name)

\* What the claim expects of a document of message lines.
SeqExpected(doc) ==
    [participants |-> FirstSeen([i \in 1..(2 * Len(doc)) |->
                                   IF i % 2 = 1 THEN doc[(i + 1) \div 2].X
                                   ELSE doc[i \div 2].Y]),
     msgs |-> [i \in 1..Len(doc) |->
                  [from |-> doc[i].X, to |-> doc[i].Y, label |-> doc[i].L,
                   dashed |-> SubSeq(seqArrows[doc[i].arrow].s, 1, 2) = <<"-", "-">>]]]

\* C16 as stated: every line X<arrow>Y: L yields one message from X to Y with
\* label L, dashed iff the arrow begins with "--", and the participants are
\* listed in first-seen order without duplicates.
SequenceLinesParsed == probe # NoProbe => probe.out = SeqExpected(probe.doc)

\* The lines the amended claim covers: X and Y are not empty, X, Y and L carry
\* no white space at either end, Y has no ':' and does not begin with '>'
\* after the arrows "->" and "-->", and the line is neither a comment nor a
\* participant or actor declaration.
SeqPlain(l) ==
    /\ l.X # <<>> /\ l.Y # <<>>
    /\ TrimSpace(l.X) = l.X /\ TrimSpace(l.Y) = l.Y /\ TrimSpace(l.L) = l.L
    /\ \A i \in 1..Len(l.Y) : l.Y[i] # ":"
    /\ (l.arrow \in {2, 4}) => l.Y[1] # ">"
    /\ ~HasPrefix(SeqText(l), <<"%", "%">>)
    /\ ~HasPrefix(ToLower(SeqText(l)), seqPrefixParticipant)
    /\ ~HasPrefix(ToLower(SeqText(l)), seqPrefixActor)

\* C16 as amended.
PlainSequenceLinesParsed ==
    (probe # NoProbe /\ \A i \in 1..Len(probe.doc) : SeqPlain(probe.doc[i]))
        => probe.out = SeqExpected(probe.doc)

\* 'Alice->>Bob: Hello' then 'Bob-->>Alice: Hi': participants Alice, Bob, a
\* solid message from Alice to Bob and a dashed one from Bob to Alice.
SequenceExample ==
    /\ probe # NoProbe
    /\ probe.doc = <<SeqHello, [X |-> SeqBob, arrow |-> 1, Y |-> SeqAlice, L |-> <<"H", "i">>]>>
    /\ probe.out.participants = <<SeqAlice, SeqBob>>
    /\ Len(probe.out.msgs) = 2
    /\ probe.out.msgs[1].from = SeqAlice /\ probe.out.msgs[1].to = SeqBob
    /\ ~probe.out.msgs[1].dashed
    /\ probe.out.msgs[2].from = SeqBob /\ probe.out.msgs[2].to = SeqAlice
    /\ probe.out.msgs[2].dashed

\* -------------------------------------------------------- parseMermaidGraph
\* strings.TrimPrefix and strings.TrimSuffix.
TrimPrefix(s, p) == IF HasPrefix(s, p) THEN SubSeq(s, Len(p) + 1, Len(s)) ELSE s
TrimSuffix(s, p) ==
    IF Len(s) >= Len(p) /\ SubSeq(s, Len(s) - Len(p) + 1, Len(s)) = p
    THEN SubSeq(s, 1, Len(s) - Len(p)) ELSE s

\* strings.LastIndexByte: the 0-based position of the last occurrence, or -1.
LastIndexByte(s, c) ==
    LET at == {i \in 0..(Len(s) - 1) : s[i + 1] = c}
    IN IF at = {} THEN -1 ELSE CHOOSE i \in at : \A j \in at : j <= i

\* The double quote and the backquote, which the model's strings hold as one
\* element each.
DoubleQuote == "dquote"
BackQuote == "bquote"

\* strings.Trim with the double quote as cutset: quotes are cut from both ends.
RECURSIVE TrimQuotes(_)
TrimQuotes(s) ==
    IF s # <<>> /\ Head(s) = DoubleQuote THEN TrimQuotes(Tail(s))
    ELSE IF s # <<>> /\ s[Len(s)] = DoubleQuote THEN TrimQuotes(SubSeq(s, 1, Len(s) - 1))
    ELSE s

\* mermaidTextReplacer: quotes and backquotes go, a bar becomes a blank.
RECURSIVE mermaidTextReplacer(_)
mermaidTextReplacer(s) ==
    IF s = <<>> THEN <<>>
    ELSE (IF Head(s) \in {DoubleQuote, "'", BackQuote} THEN <<>>
          ELSE IF Head(s) = "|" THEN <<" ">> ELSE <<Head(s)>>)
         \o mermaidTextReplacer(Tail(s))

cleanMermaidText(in) == JoinWith(Fields(mermaidTextReplacer(TrimSpace(in))), <<" ">>)

cleanMermaidID(in) ==
    LET a == TrimPrefix(TrimPrefix(TrimPrefix(TrimSpace(in), <<"(">>), <<"[">>), <<"{">>)
        b == TrimSuffix(TrimSuffix(TrimSuffix(TrimSuffix(a, <<")">>), <<"]">>), <<"}">>), <<";">>)
        fields == Fields(b)
    IN IF Len(fields) = 0 THEN <<>> ELSE TrimQuotes(TrimSpace(fields[1]))

NoNode == [id |-> <<>>, label |-> <<>>]

\* The bracket loop of parseMermaidNode from the k-th pair on.
mermaidBrackets == << <<"[", "]">>, <<"(", ")">>, <<"{", "}">> >>
RECURSIVE parseBracketed(_, _)
parseBracketed(raw, k) ==
    IF k > Len(mermaidBrackets)
    THEN IF cleanMermaidID(raw) = <<>> THEN NoNode
         ELSE [id |-> cleanMermaidID(raw), label |-> cleanMermaidText(cleanMermaidID(raw))]
    ELSE LET i == Index(raw, <<mermaidBrackets[k][1]>>)
             j == LastIndexByte(raw, mermaidBrackets[k][2])
             id == TrimSpace(SubSeq(raw, 1, i))
             label == cleanMermaidText(SubSeq(raw, i + 2, j))
         IN IF i > 0 /\ j > i
            THEN [id |-> cleanMermaidID(id),
                  label |-> IF label = <<>> THEN cleanMermaidText(id) ELSE label]
            ELSE parseBracketed(raw, k + 1)

parseMermaidNode(raw0) ==
    LET raw == TrimSpace(TrimSuffix(raw0, <<";">>))
        tag == Index(raw, <<":", ":", ":">>)
    IN IF raw = <<>> THEN NoNode
       ELSE parseBracketed(IF tag < 0 THEN raw ELSE SubSeq(raw, 1, tag), 1)

mermaidOperators == << <<"-", "-", ">">>, <<"=", "=", ">">>, <<"-", ".", "-", ">">> >>

\* The operator parseMermaidEdge settles on: the leftmost, the earlier in the
\* list on a tie; 0 when the line holds none.
mermaidOperatorIn(line) ==
    LET found == {k \in 1..Len(mermaidOperators) : Index(line, mermaidOperators[k]) >= 0}
    IN IF found = {} THEN 0
       ELSE CHOOSE k \in found :
              \A l \in found :
                 \/ Index(line, mermaidOperators[k]) < Index(line, mermaidOperators[l])
                 \/ Index(line, mermaidOperators[k]) = Index(line, mermaidOperators[l]) /\ k <= l

\* The end of parseMermaidEdge: both nodes must have an id.
edgeOfNodes(from, to) ==
    IF from.id = <<>> \/ to.id = <<>>
    THEN [ok |-> FALSE, from |-> NoNode, to |-> NoNode]
    ELSE [ok |-> TRUE, from |-> from, to |-> to]

\* parseMermaidEdge: [ok, from, to] with from and to the parsed nodes.
parseMermaidEdge(line) ==
    LET k == mermaidOperatorIn(line)
    IN IF k = 0 THEN [ok |-> FALSE, from |-> NoNode, to |-> NoNode]
       ELSE LET idx == Index(line, mermaidOperators[k])
                left == TrimSpace(SubSeq(line, 1, idx))
                right0 == TrimSpace(SubSeq(line, idx + Len(mermaidOperators[k]) + 1, Len(line)))
                end == IF HasPrefix(right0, <<"|">>) THEN Index(Tail(right0), <<"|">>) ELSE -1
                right == IF end >= 0 THEN TrimSpace(SubSeq(right0, end + 3, Len(right0)))
                         ELSE right0
            IN edgeOfNodes(parseMermaidNode(left), parseMermaidNode(right))

\* registerMermaidNode with the label kept: the first label of an id stays.
registerLabel(nodes, n) ==
    IF n.id \in DOMAIN nodes THEN nodes
    ELSE [id \in DOMAIN nodes \cup {n.id} |-> IF id = n.id THEN n.label ELSE nodes[id]]

\* The graph after a line that parsed as edge, or not.
graphWithEdge(g, edge) ==
    IF ~edge.ok THEN g
    ELSE [g EXCEPT
            !.edges = Append(@, [from |-> edge.from.id, to |-> edge.to.id]),
            !.nodeOrder = registerMermaidNode(registerMermaidNode(@, edge.from.id), edge.to.id),
            !.nodes = registerLabel(registerLabel(@, edge.from), edge.to)]

\* The graph after a line that is neither blank nor a comment: the first such
\* line names the chart type.
graphWithLine(g, trimmed) ==
    graphWithEdge(IF g.chartType = <<"d", "i", "a", "g", "r", "a", "m">>
                     /\ Len(Fields(trimmed)) > 0
                  THEN [g EXCEPT !.chartType = Fields(trimmed)[1]] ELSE g,
                  parseMermaidEdge(trimmed))

\* The line loop of parseMermaidGraph.
RECURSIVE graphLines(_, _)
graphLines(lines, g) ==
    IF lines = <<>> THEN g
    ELSE IF TrimSpace(Head(lines)) = <<>> \/ HasPrefix(TrimSpace(Head(lines)), <<"%", "%">>)
    THEN graphLines(Tail(lines), g)
    ELSE graphLines(Tail(lines), graphWithLine(g, TrimSpace(Head(lines))))

parseMermaidGraph(code) ==
    graphLines(Split(code, "\n"),
               [chartType |-> <<"d", "i", "a", "g", "r", "a", "m">>, nodeOrder |-> <<>>,
                nodes |-> <<>>, edges |-> <<>>])

\* The first field of the first line that is neither blank nor a comment.
RECURSIVE chartTypeOf(_)
chartTypeOf(lines) ==
    IF lines = <<>> THEN <<"d", "i", "a", "g", "r", "a", "m">>
    ELSE LET trimmed == TrimSpace(Head(lines))
         IN IF trimmed = <<>> \/ HasPrefix(trimmed, <<"%", "%">>)
            THEN chartTypeOf(Tail(lines))
            ELSE Fields(trimmed)[1]
mermaidChartType(code) == chartTypeOf(Split(code, "\n"))

\* ------------------------------------------------------- diagram renderers
\* A rendering is a sequence of blocks.  The drawing of a diagram is one block
\* that names what was drawn and the width it was clamped to; text is a block
\* that holds the characters.
FlowArt(g, maxW) == [kind |-> "flowchart", g |-> g, maxW |-> maxW]
SequenceArt(parts, msgs, maxW) ==
    [kind |-> "sequence", participants |-> parts, msgs |-> msgs, maxW |-> maxW]
TextBlock(text) == [kind |-> "text", text |-> text]
MermaidNote == [kind |-> "text", text |-> <<"_Mermaid block: no diagram content parsed._">>]

\* The drawings of a parsed diagram: <<>> when nothing was parsed.
sequenceArtOf(parsed, maxW) ==
    IF Len(parsed.msgs) > 0
    THEN <<SequenceArt(parsed.participants, parsed.msgs, maxW)>> ELSE <<>>
flowArtOf(g, maxW) == IF Len(g.nodeOrder) > 0 THEN <<FlowArt(g, maxW)>> ELSE <<>>

\* The drawing the two renderers share.
mermaidArt(code, maxW) ==
    IF mermaidChartType(code) =
         <<"s", "e", "q", "u", "e", "n", "c", "e", "D", "i", "a", "g", "r", "a", "m">>
    THEN sequenceArtOf(parseSequenceDiagram(code), maxW)
    ELSE flowArtOf(parseMermaidGraph(code), maxW)

\* What the two renderers make of the drawing.
nativeOf(art, code) == IF art # <<>> THEN art ELSE <<TextBlock(code)>>
fencedOf(art) ==
    IF art = <<>> THEN <<MermaidNote>>
    ELSE <<TextBlock(<<BackQuote, BackQuote, BackQuote, "text">>)>> \o art
         \o <<TextBlock(<<BackQuote, BackQuote, BackQuote>>)>>

renderMermaidNative(code) == nativeOf(mermaidArt(code, 0), code)

renderMermaidMarkdownPreview(code) == fencedOf(mermaidArt(code, 80))

\* Diagram sources of up to MaxDiagramLines lines.
DiagramLines ==
    { <<"%", "%", " ", "c">>,
      <<"g", "r", "a", "p", "h", " ", "T", "D">>,
      <<"s", "e", "q", "u", "e", "n", "c", "e", "D", "i", "a", "g", "r", "a", "m">>,
      <<"A", "-", "-", ">", "B">>,
      <<"A", "[", "x", "]", " ", "=", "=", ">", " ", "A">>,
      <<"A", "-", ">", ">", "B", ":", " ", "H">>,
      <<"p", "a", "r", "t", "i", "c", "i", "p", "a", "n", "t", " ", "A">>,
      <<"-", "-", ">">> }
DiagramSources ==
    {JoinWith(ls, <<"\n">>) : ls \in UNION {[1..n -> DiagramLines] : n \in 1..MaxDiagramLines}}

InitDiagram ==
    /\ files = AllPaths
    /\ m = initialModel(files, RootDir, TRUE)
    /\ inflight = {}
    /\ issued = <<>>
    /\ latest = NoMsg
    /\ last = [rp |-> "none", dl |-> "none", msg |-> NoMsg]
    /\ inserted = <<>>
    /\ probe = NoProbe
    /\ pc = "renderMermaid"

\* A .mmd or .mermaid file shown in the full pane.
DiagramNativeProbe ==
    /\ pc = "renderMermaid"
    /\ probe = NoProbe
    /\ \E code \in DiagramSources :
         probe' = [path |-> "native", code |-> code, out |-> renderMermaidNative(code)]
    /\ UNCHANGED <<m, files, inflight, issued, latest, last, inserted, pc>>

\* A mermaid fence of a Markdown file: replaceMermaidFences hands over the
\* trimmed block, and only when it is not empty.
DiagramMarkdownProbe ==
    /\ pc = "renderMermaid"
    /\ probe = NoProbe
    /\ \E code \in DiagramSources :
         /\ TrimSpace(code) # <<>>
         /\ probe' = [path |-> "markdown", code |-> TrimSpace(code),
                      out |-> renderMermaidMarkdownPreview(TrimSpace(code))]
    /\ UNCHANGED <<m, files, inflight, issued, latest, last, inserted, pc>>

NextDiagram == DiagramNativeProbe \/ DiagramMarkdownProbe

SpecDiagram == InitDiagram /\ [][NextDiagram]_vars

\* No edge (flow graph) or no message (sequence diagram) is parsed from code.
Degenerate(code) ==
    IF mermaidChartType(code) =
         <<"s", "e", "q", "u", "e", "n", "c", "e", "D", "i", "a", "g", "r", "a", "m">>
    THEN parseSequenceDiagram(code).msgs = <<>>
    ELSE parseMermaidGraph(code).edges = <<>>

\* C15: a diagram source from which no edge or no message is parsed renders,
\* in the full pane and embedded in Markdown, as a short explanatory note
\* followed by the raw source.
DegenerateDiagramNoteAndSource ==
    (probe # NoProbe /\ Degenerate(probe.code))
        => probe.out = <<MermaidNote, TextBlock(probe.code)>>

\* ------------------------------------------------------------ JSON renderer
\* A JSON text is held as the value it spells, objects as the list of their
\* key/value pairs in the order written:
\*   [obj |-> pairs]  [arr |-> items]  [str |-> chars]  [num |-> n]
\*   [bool |-> b]  [null |-> TRUE]
\* A text that does not parse is [invalid |-> the error].  Numbers are integers.
IsObj(v) == DOMAIN v = {"obj"}
IsArr(v) == DOMAIN v = {"arr"}

\* json.Unmarshal into interface{}: an object becomes a map, in which the last
\* pair written for a key wins.
RECURSIVE Unmarshal(_)
Unmarshal(v) ==
    IF IsObj(v)
    THEN [map |-> [key \in {v.obj[i].k : i \in 1..Len(v.obj)} |->
                     LET at == {i \in 1..Len(v.obj) : v.obj[i].k = key}
                     IN Unmarshal(v.obj[CHOOSE i \in at : \A j \in at : j <= i].v)]]
    ELSE IF IsArr(v) THEN [arr |-> [i \in 1..Len(v.arr) |-> Unmarshal(v.arr[i])]]
    ELSE v

\* sort.Strings of a set of keys.
RECURSIVE SortStrings(_)
SortStrings(S) ==
    IF S = {} THEN <<>>
    ELSE LET least == CHOOSE a \in S : \A b \in S : a = b \/ StrLess(a, b)
         IN <<least>> \o SortStrings(S \ {least})

\* Variant: the keys come in whatever order the map yields them, here the
\* reverse of the sorted one.
RECURSIVE ObjectKeysUnsorted(_)
ObjectKeysUnsorted(S) ==
    IF S = {} THEN <<>>
    ELSE LET greatest == CHOOSE a \in S : \A b \in S : a = b \/ StrLess(b, a)
         IN <<greatest>> \o ObjectKeysUnsorted(S \ {greatest})

\* The keys of a map in the order writeJSON emits them.
ObjectKeys(S) == SortStrings(S)

\* A piece of output: text rendered in one of the lipgloss styles, or plain.
Styled(style, text) == <<[style |-> style, text |-> text]>>
Plain(text) == <<[style |-> "plain", text |-> text]>>
Indent(depth) == [i \in 1..depth |-> "  "]
jsonArrayCap == 100
Ellipsis == "ellipsis"      \* the one character U+2026

\* strings.ReplaceAll(val, `"`, `\"`)
RECURSIVE EscapeQuotes(_)
EscapeQuotes(str) ==
    IF str = <<>> THEN <<>>
    ELSE (IF Head(str) = DoubleQuote THEN <<"\\", DoubleQuote>> ELSE <<Head(str)>>)
         \o EscapeQuotes(Tail(str))

RECURSIVE writeJSON(_, _)
RECURSIVE writeJSONPairs(_, _, _, _)
RECURSIVE writeJSONItems(_, _, _, _)
writeJSONPairs(val, keys, i, depth) ==
    IF i > Len(keys) THEN <<>>
    ELSE Plain(Indent(depth + 1))
         \o Styled("jsonKey", <<DoubleQuote>> \o keys[i] \o <<DoubleQuote>>)
         \o Styled("jsonMuted", <<":", " ">>)
         \o writeJSON(val[keys[i]], depth + 1)
         \o (IF i < Len(keys) THEN Styled("jsonMuted", <<",">>) ELSE <<>>)
         \o Plain(<<"\n">>)
         \o writeJSONPairs(val, keys, i + 1, depth)
writeJSONItems(val, i, limit, depth) ==
    IF i > limit THEN <<>>
    ELSE Plain(Indent(depth + 1))
         \o writeJSON(val[i], depth + 1)
         \o (IF i < Len(val) THEN Styled("jsonMuted", <<",">>) ELSE <<>>)
         \o Plain(<<"\n">>)
         \o writeJSONItems(val, i + 1, limit, depth)
writeJSON(v, depth) ==
    IF DOMAIN v = {"map"}
    THEN IF DOMAIN v.map = {} THEN Styled("jsonBracket", <<"{", "}">>)
         ELSE Styled("jsonBracket", <<"{">>) \o Plain(<<"\n">>)
              \o writeJSONPairs(v.map, ObjectKeys(DOMAIN v.map), 1, depth)
              \o Plain(Indent(depth)) \o Styled("jsonBracket", <<"}">>)
    ELSE IF IsArr(v)
    THEN IF Len(v.arr) = 0 THEN Styled("jsonBracket", <<"[", "]">>)
         ELSE Styled("jsonBracket", <<"[">>) \o Plain(<<"\n">>)
              \o writeJSONItems(v.arr, 1, min(Len(v.arr), jsonArrayCap), depth)
              \o (IF Len(v.arr) > jsonArrayCap
                  THEN Plain(Indent(depth + 1))
                       \o Styled("jsonMuted", <<Ellipsis, " ">>
                                               \o Itoa(Len(v.arr) - jsonArrayCap)
                                               \o <<" more items">>)
                       \o Plain(<<"\n">>)
                  ELSE <<>>)
              \o Plain(Indent(depth)) \o Styled("jsonBracket", <<"]">>)
    ELSE IF DOMAIN v = {"str"}
    THEN Styled("jsonStr", <<DoubleQuote>> \o EscapeQuotes(v.str) \o <<DoubleQuote>>)
    ELSE IF DOMAIN v = {"num"} THEN Styled("jsonNum", Itoa(v.num))
    ELSE IF DOMAIN v = {"bool"}
    THEN Styled("jsonBool", IF v.bool THEN <<"true">> ELSE <<"false">>)
    ELSE Styled("jsonNull", <<"null">>)

JsonTruncatedNotice == <<"  ", Ellipsis, " file truncated, showing partial parse">>

\* renderJSONPreview: text is the parsed-or-invalid value, raw stands for the
\* characters of the file.
renderJSONPreview(text, raw, truncated) ==
    IF DOMAIN text = {"invalid"}
    THEN Styled("errStyle", <<"  invalid JSON: ", text.invalid>>)
         \o Plain(<<"\n", "\n">>) \o Plain(raw)
    ELSE writeJSON(Unmarshal(text), 0)
         \o (IF truncated
             THEN Plain(<<"\n">>) \o Styled("jsonMuted", JsonTruncatedNotice) ELSE <<>>)

\* The objects the renderer is driven with: up to MaxKeys distinct keys, the
\* values scalars, small objects, and arrays of small objects.
JsonKeys == {<<"a">>, <<"B">>, <<"a", "b">>}
JsonAB == [obj |-> <<[k |-> <<"a">>, v |-> [num |-> 1]], [k |-> <<"B">>, v |-> [num |-> 2]]>>]
JsonInner ==
    { [num |-> 1], [str |-> <<"x">>],
      [obj |-> <<>>],
      [obj |-> <<[k |-> <<"a">>, v |-> [num |-> 1]]>>],
      JsonAB,
      [arr |-> <<JsonAB, [num |-> 1]>>] }
JsonObjects ==
    {[obj |-> pairs] :
        pairs \in {ps \in UNION {[1..n -> [k : JsonKeys, v : JsonInner]] : n \in 0..MaxKeys} :
                     \A i, j \in DOMAIN ps : i # j => ps[i].k # ps[j].k}}

\* v with the pairs of every object in it written in reverse.
RECURSIVE Reversed(_)
Reversed(v) ==
    IF IsObj(v)
    THEN [obj |-> [i \in 1..Len(v.obj) |->
                     [k |-> v.obj[Len(v.obj) + 1 - i].k,
                      v |-> Reversed(v.obj[Len(v.obj) + 1 - i].v)]]]
    ELSE IF IsArr(v) THEN [arr |-> [i \in 1..Len(v.arr) |-> Reversed(v.arr[i])]]
    ELSE v

\* The outer object a with its pairs in the order p and the values at the
\* places in flips written in reverse.
Reordered(a, p, flips) ==
    [obj |-> [i \in 1..Len(a.obj) |->
                [k |-> a.obj[p[i]].k,
                 v |-> IF p[i] \in flips THEN Reversed(a.obj[p[i]].v) ELSE a.obj[p[i]].v]]]

InitJSON ==
    /\ files = AllPaths
    /\ m = initialModel(files, RootDir, TRUE)
    /\ inflight = {}
    /\ issued = <<>>
    /\ latest = NoMsg
    /\ last = [rp |-> "none", dl |-> "none", msg |-> NoMsg]
    /\ inserted = <<>>
    /\ probe = NoProbe
    /\ pc = "renderJSONPreview"

JSONProbe ==
    /\ pc = "renderJSONPreview"
    /\ probe = NoProbe
    /\ \E a \in JsonObjects :
         \E p \in Permutations(1..Len(a.obj)), flips \in SUBSET (1..Len(a.obj)) :
            LET b == Reordered(a, p, flips)
            IN probe' = [a |-> a, b |-> b,
                         ra |-> renderJSONPreview(a, <<"a">>, FALSE),
                         rb |-> renderJSONPreview(b, <<"b">>, FALSE)]
    /\ UNCHANGED <<m, files, inflight, issued, latest, last, inserted, pc>>

NextJSON == JSONProbe

SpecJSON == InitJSON /\ [][NextJSON]_vars

\* The keys of the outer object in the order they appear in a rendering: the
\* key pieces that follow an indentation of one level.
OuterKeys(out) ==
    LET at == SelectSeq([i \in 1..Len(out) |-> i],
                        LAMBDA i : /\ i > 1
                                   /\ out[i].style = "jsonKey"
                                   /\ out[i - 1] = [style |-> "plain", text |-> Indent(1)])
    IN [i \in 1..Len(at) |-> SubSeq(out[at[i]].text, 2, Len(out[at[i]].text) - 1)]

\* C17: two texts of the same JSON object that differ only in the order of
\* the keys, at any depth, render identically, and the keys of the object come
\* out in lexicographic order.
JsonKeyOrderIndependent ==
    probe # NoProbe =>
        /\ probe.ra = probe.rb
        /\ \A i \in 1..(Len(OuterKeys(probe.ra)) - 1) :
              StrLess(OuterKeys(probe.ra)[i], OuterKeys(probe.ra)[i + 1])
        /\ Len(OuterKeys(probe.ra)) = Len(probe.a.obj)

\* {"a": {"a": 1, "B": 2}, "B": 1} against {"B": 1, "a": {"B": 2, "a": 1}}.
JsonReorderedExample ==
    /\ probe # NoProbe
    /\ probe.a = [obj |-> <<[k |-> <<"a">>, v |-> JsonAB], [k |-> <<"B">>, v |-> [num |-> 1]]>>]
    /\ probe.b = [obj |-> <<[k |-> <<"B">>, v |-> [num |-> 1]],
                           [k |-> <<"a">>, v |-> Reversed(JsonAB)]>>]
    /\ probe.ra = probe.rb
    /\ OuterKeys(probe.ra) = << <<"B">>, <<"a">> >>

\* ------------------------------------------------------------ buildPreview
maxPreviewBytes == 256 * 1024
sniffLen == 8192

imageExts ==
    { <<".", "p", "n", "g">>, <<".", "j", "p", "g">>, <<".", "j", "p", "e", "g">>,
      <<".", "w", "e", "b", "p">>, <<".", "g", "i", "f">>, <<".", "b", "m", "p">>,
      <<".", "t", "i", "f", "f">> }

\* filepath.Ext: the suffix of the last element of the path from its last dot.
Ext(path) ==
    LET dots == {i \in 1..Len(path) :
                   /\ path[i] = "."
                   /\ \A j \in i..Len(path) : path[j] # "/"}
    IN IF dots = {} THEN <<>>
       ELSE SubSeq(path, CHOOSE i \in dots : \A j \in dots : j <= i, Len(path))

\* filepath.Base of a path that does not end in a slash.
Base(path) ==
    IF LastIndexByte(path, "/") < 0 THEN path
    ELSE SubSeq(path, LastIndexByte(path, "/") + 2, Len(path))

\* humanSize, for sizes below 1 GB: "%d B" under 1024, else "%.1f" of the
\* size in the largest unit not above it, rounded to the nearest tenth, a tie
\* going to the even tenth.
humanSize(n) ==
    IF n < 1024 THEN Itoa(n) \o <<" ", "B">>
    ELSE LET div == IF n < 1024 * 1024 THEN 1024 ELSE 1024 * 1024
             unit == IF n < 1024 * 1024 THEN "KB" ELSE "MB"
             whole == n \div div
             rest == (n % div) * 10
             down == rest \div div
             twice == 2 * (rest % div)
             tenth == IF twice > div \/ (twice = div /\ down % 2 = 1) THEN down + 1 ELSE down
             tenths == whole * 10 + tenth
         IN Itoa(tenths \div 10) \o <<".">> \o Itoa(tenths % 10) \o <<" ", unit>>

\* time.Format(time.RFC822) of a time within the first day of 1970, in UTC.
FormatRFC822(t) ==
    LET hh == t[2] \div 3600
        mi == (t[2] % 3600) \div 60
        two(k) == IF k < 10 THEN <<"0">> \o Itoa(k) ELSE Itoa(k)
    IN <<"01 Jan 70 ">> \o two(hh) \o <<":">> \o two(mi) \o <<" UTC">>

NoError == <<>>

\* A file as buildPreview meets it: name, what stat reports, the position of
\* the first null byte (0: none), whether the bytes are valid UTF-8, what the
\* image decoder, the diagram source, the JSON text and the highlighter make
\* of the content, and which I/O operation on it fails.
\* f.Read: the number of bytes the one read returns.
ReadLen(f) == min(f.size, maxPreviewBytes)

\* The bytes read, as far as the classifier looks at them.
Sample(f) ==
    [len |-> ReadLen(f),
     nullAt |-> IF f.nullAt <= ReadLen(f) THEN f.nullAt ELSE 0,
     utf8 |-> f.utf8]

\* Variant: the scan stops one byte early.
isLikelyBinaryShortSniff(data) ==
    /\ data.len # 0
    /\ data.nullAt >= 1
    /\ data.nullAt <= min(data.len, sniffLen - 1)

isLikelyBinary(data) ==
    /\ data.len # 0
    /\ data.nullAt >= 1
    /\ data.nullAt <= min(data.len, sniffLen)

\* The text of the sample after the line endings are normalised.
SampleText(f) == <<"text of ">> \o f.name \o <<", bytes: ">> \o Itoa(ReadLen(f))

\* Variant: one byte short of the cap already counts as truncated.
truncatedOneShort(n) == n >= maxPreviewBytes - 1

\* n == maxPreviewBytes
truncated(n) == n = maxPreviewBytes

TruncatedNotice == Plain(<<"\n", "\n", "... preview truncated ...">>)

\* highlight: "" when the tokeniser or the formatter fails, and for no text.
highlight(f) ==
    IF f.highlights /\ ReadLen(f) > 0 THEN Styled("highlighted", SampleText(f)) ELSE <<>>

renderMarkdownPreview(f, width, trunc) ==
    Styled("markdown", SampleText(f)) \o (IF trunc THEN TruncatedNotice ELSE <<>>)

imagePreview(f, width, height) ==
    IF f.fails = "open" THEN [img |-> <<>>, ok |-> FALSE]
    ELSE IF f.fails = "read" \/ f.img # "ok" THEN [img |-> <<>>, ok |-> FALSE]
    ELSE [img |-> Styled("image", <<"art of ">> \o f.name), ok |-> TRUE]

buildDirPreview(f) ==
    IF f.fails = "readdir"
    THEN [err |-> <<"open ">> \o f.name \o <<": permission denied">>,
          kind |-> "Directory", n |-> 0, out |-> <<>>]
    ELSE [err |-> NoError, kind |-> "Directory", n |-> 0,
          out |-> Styled("dirStyle", Base(f.name) \o <<"/">>)]

buildPreview(f, width, height) ==
    IF f.fails = "stat"
    THEN [err |-> <<"stat ">> \o f.name \o <<": no such file or directory">>,
          kind |-> "none", n |-> 0, out |-> <<>>]
    ELSE IF f.isDir THEN buildDirPreview(f)
    ELSE IF ToLower(Ext(f.name)) \in imageExts
    THEN IF imagePreview(f, width, height).ok
         THEN [err |-> NoError, kind |-> "Image", n |-> 0,
               out |-> imagePreview(f, width, height).img]
         ELSE [err |-> NoError, kind |-> "Image", n |-> 0,
               out |-> Plain(<<"image file: ">> \o Base(f.name) \o <<"\nsize: ">>
                             \o humanSize(f.size)
                             \o <<"\n\npreview unavailable for this format">>)]
    ELSE IF f.fails = "open"
    THEN [err |-> <<"open ">> \o f.name \o <<": permission denied">>,
          kind |-> "none", n |-> 0, out |-> <<>>]
    ELSE IF f.fails = "read"
    THEN [err |-> <<"read ">> \o f.name \o <<": input/output error">>,
          kind |-> "none", n |-> 0, out |-> <<>>]
    ELSE LET n == ReadLen(f)
             ext == ToLower(Ext(f.name))
             done(kind, out) == [err |-> NoError, kind |-> kind, n |-> n, out |-> out]
         IN IF isLikelyBinary(Sample(f))
            THEN done("Binary",
                      Plain(<<"binary file: ">> \o Base(f.name) \o <<"\nsize: ">>
                            \o humanSize(f.size) \o <<"\nmodified: ">>
                            \o FormatRFC822(f.modTime)))
            ELSE IF ~Sample(f).utf8
            THEN done("NonUtf8Text",
                      Plain(<<"non-utf8 text file: ">> \o Base(f.name) \o <<"\nsize: ">>
                            \o humanSize(f.size)))
            ELSE IF ext \in {<<".", "m", "d">>, <<".", "m", "a", "r", "k", "d", "o", "w", "n">>,
                             <<".", "m", "d", "x">>}
            THEN done("Markdown", renderMarkdownPreview(f, width, truncated(n)))
            ELSE IF ext \in {<<".", "m", "m", "d">>, <<".", "m", "e", "r", "m", "a", "i", "d">>}
            THEN done("Diagram", renderMermaidNative(f.code))
            ELSE IF ext = <<".", "j", "s", "o", "n">>
            THEN done("Json", renderJSONPreview(f.json, SampleText(f), truncated(n)))
            ELSE IF highlight(f) # <<>>
            THEN done("SyntaxText",
                      highlight(f) \o (IF truncated(n) THEN TruncatedNotice ELSE <<>>))
            ELSE done("SyntaxText",
                      Plain(SampleText(f)) \o (IF truncated(n) THEN TruncatedNotice ELSE <<>>))

\* What Update shows for a result that is not stale.
publishedPreview(res) ==
    IF res.err # NoError THEN <<"preview error: ">> \o res.err ELSE res.out

\* The files buildPreview is driven with.
PreviewNames ==
    { <<"x", ".", "p", "n", "g">>, <<"x", ".", "P", "N", "G">>, <<"x", ".", "m", "d">>,
      <<"x", ".", "m", "m", "d">>, <<"x", ".", "j", "s", "o", "n">>,
      <<"x", ".", "g", "o">>, <<"x">> }
PreviewSizes ==
    {0, 5, sniffLen, sniffLen + 1, maxPreviewBytes - 1, maxPreviewBytes, maxPreviewBytes + 1}
NullPositions == {0, 1, sniffLen, sniffLen + 1}
DiagramOfEdge == <<"g", "r", "a", "p", "h", " ", "T", "D", "\n", "A", "-", "-", ">", "B">>
DiagramOfNothing == <<"g", "r", "a", "p", "h", " ", "T", "D">>
RegularFiles ==
    { [name |-> name, isDir |-> FALSE, size |-> size, modTime |-> <<0, 3720, 0>>,
       nullAt |-> nullAt, utf8 |-> utf8,
       img |-> IF good THEN "ok" ELSE "undecodable",
       code |-> IF good THEN DiagramOfEdge ELSE DiagramOfNothing,
       json |-> IF good THEN JsonAB ELSE [invalid |-> "unexpected end of JSON input"],
       highlights |-> good, fails |-> fails] :
        name \in PreviewNames,
        size \in PreviewSizes, nullAt \in NullPositions,
        utf8 \in BOOLEAN, good \in BOOLEAN,
        fails \in {"none", "stat", "open", "read"} }
PreviewFiles ==
    {f \in RegularFiles : f.nullAt <= f.size /\ (f.utf8 \/ f.size > 0)}
    \cup
    { [name |-> <<"d">>, isDir |-> TRUE, size |-> 64, modTime |-> <<0, 3720, 0>>,
       nullAt |-> 0, utf8 |-> TRUE, img |-> "undecodable", code |-> <<>>,
       json |-> [invalid |-> "unexpected end of JSON input"],
       highlights |-> FALSE, fails |-> fails] :
        fails \in {"none", "stat", "readdir"} }

InitPreview ==
    /\ files = AllPaths
    /\ m = initialModel(files, RootDir, TRUE)
    /\ inflight = {}
    /\ issued = <<>>
    /\ latest = NoMsg
    /\ last = [rp |-> "none", dl |-> "none", msg |-> NoMsg]
    /\ inserted = <<>>
    /\ probe = NoProbe
    /\ pc = "buildPreview"

BuildPreviewProbe ==
    /\ pc = "buildPreview"
    /\ probe = NoProbe
    /\ \E f \in PreviewFiles :
         probe' = [file |-> f, res |-> buildPreview(f, 80, 24),
                   preview |-> publishedPreview(buildPreview(f, 80, 24))]
    /\ UNCHANGED <<m, files, inflight, issued, latest, last, inserted, pc>>

NextPreview == BuildPreviewProbe

SpecPreview == InitPreview /\ [][NextPreview]_vars

\* The sample of the probed file was read and has a null byte within its
\* first 8192 bytes.
NullByteSniffed ==
    /\ probe # NoProbe
    /\ ~probe.file.isDir
    /\ probe.file.fails = "none"
    /\ probe.file.nullAt \in 1..sniffLen

BinarySummary(f) ==
    Plain(<<"binary file: ">> \o f.name \o <<"\nsize: ">> \o humanSize(f.size)
          \o <<"\nmodified: ">> \o FormatRFC822(f.modTime))

\* C11 as stated: every regular file whose sample has a null byte within its
\* first 8192 bytes is classified Binary whatever its extension, image
\* extensions included, and its preview is the name/size/modified summary.
BinaryWhateverExtension ==
    NullByteSniffed =>
        /\ probe.res.kind = "Binary"
        /\ probe.res.out = BinarySummary(probe.file)

\* C11, amended: every regular file whose extension is not an image extension
\* and whose sample has a null byte within its first 8192 bytes is classified
\* Binary, Markdown, diagram and JSON extensions included, and its preview is
\* the name/size/modified summary and nothing else.
BinaryUnlessImageExtension ==
    (NullByteSniffed /\ ToLower(Ext(probe.file.name)) \notin imageExts) =>
        /\ probe.res.kind = "Binary"
        /\ probe.res.err = NoError
        /\ probe.res.out = BinarySummary(probe.file)
        /\ probe.preview = BinarySummary(probe.file)

\* x.json of 262145 bytes whose 8192nd byte is the first null byte.
BinaryJsonExample ==
    /\ NullByteSniffed
    /\ probe.file.name = <<"x", ".", "j", "s", "o", "n">>
    /\ probe.file.size = maxPreviewBytes + 1
    /\ probe.file.nullAt = sniffLen
    /\ probe.res.kind = "Binary"
    /\ probe.res.out = Plain(<<"binary file: ", "x", ".", "j", "s", "o", "n", "\nsize: ",
                               "2", "5", "6", ".", "0", " ", "KB", "\nmodified: ",
                               "01 Jan 70 ", "0", "1", ":", "0", "2", " UTC">>)

\* A part of the output that is a truncation notice.
IsTruncationNotice(part) ==
    \/ part = TruncatedNotice[1]
    \/ part = [style |-> "jsonMuted", text |-> JsonTruncatedNotice]
HasTruncationNotice(out) == \E i \in 1..Len(out) : IsTruncationNotice(out[i])

\* C12: whenever the number of bytes read equals the preview cap, the output
\* of every text-producing strategy (Markdown, Diagram, JSON on success and
\* on parse failure, syntax and plain text) contains a truncation notice.
TruncatedOutputsCarryNotice ==
    ( /\ probe # NoProbe
      /\ probe.res.err = NoError
      /\ probe.res.kind \in {"Markdown", "Diagram", "Json", "SyntaxText"}
      /\ probe.res.n = maxPreviewBytes )
        => HasTruncationNotice(probe.res.out)

\* C13: a syntax-highlighted or plain text rendering ends with the truncation
\* notice exactly when the number of bytes read is 262144; with 262143 bytes
\* read it holds no truncation notice at all.
TextNoticeIffCapReached ==
    ( /\ probe # NoProbe
      /\ probe.res.err = NoError
      /\ probe.res.kind = "SyntaxText" )
        => /\ IsTruncationNotice(probe.res.out[Len(probe.res.out)])
                <=> probe.res.n = 262144
           /\ probe.res.n = 262143 => ~HasTruncationNotice(probe.res.out)
           /\ probe.res.n = ReadLen(probe.file)

\* x.go of exactly 262144 bytes, highlighted, ends with the notice.
TextAtCapExample ==
    /\ probe # NoProbe
    /\ probe.file.name = <<"x", ".", "g", "o">>
    /\ probe.file.size = 262144
    /\ probe.res.kind = "SyntaxText"
    /\ Len(probe.res.out) = 2
    /\ probe.res.out[1].style = "highlighted"
    /\ probe.res.out[2] = [style |-> "plain", text |-> <<"\n", "\n", "... preview truncated ...">>]

\* C18: every stat, open, read or directory-read failure during a preview
\* attempt, for every kind of entry, files with an image extension included,
\* makes buildPreview return an error, which is shown as "preview error: ...".
IoFailuresPublished ==
    (probe # NoProbe /\ probe.file.fails # "none") =>
        /\ probe.res.err # NoError
        /\ probe.preview = <<"preview error: ">> \o probe.res.err

\* ------------------------------------------------------ asciiSequenceDiagram
\* The rendering as the list of its rows, a row being its characters.  The
\* box-drawing and arrow runes are held as ASCII stand-ins of one character:
\* "|" lifeline, "-" solid line, "~" dashed line, ">" and "<" arrowheads,
\* "@" the self-arrow.
seqMinColW == 14

\* strings.TrimRight(s, " ")
RECURSIVE TrimRightSpaces(_)
TrimRightSpaces(s) ==
    IF s # <<>> /\ s[Len(s)] = " " THEN TrimRightSpaces(SubSeq(s, 1, Len(s) - 1)) ELSE s

Spaces(n) == [i \in 1..n |-> " "]

\* Column width: the longest name plus 4, at least 14, made even.
seqColW(participants) ==
    LET widest == CHOOSE w \in {Len(participants[i]) + 4 : i \in 1..Len(participants)}
                                  \cup {seqMinColW} :
                     /\ w >= seqMinColW
                     /\ \A i \in 1..Len(participants) : Len(participants[i]) + 4 <= w
    IN IF widest % 2 # 0 THEN widest + 1 ELSE widest

seqTotalW(participants, maxW) ==
    IF maxW > 0 /\ Len(participants) * seqColW(participants) > maxW
    THEN maxW ELSE Len(participants) * seqColW(participants)

\* centerOf, and colIdx: the 0-based column of a participant, -1 if unknown.
centerOf(i, colW) == i * colW + colW \div 2
colIdx(participants, name) ==
    IF \E i \in 1..Len(participants) : participants[i] = name
    THEN (CHOOSE i \in 1..Len(participants) :
            /\ participants[i] = name
            /\ \A j \in 1..Len(participants) : participants[j] = name => j <= i) - 1
    ELSE -1

\* One cell of the participant header row.
seqHeaderCell(p, colW) ==
    LET name == IF Len(p) > colW - 2 THEN SubSeq(p, 1, colW - 2) ELSE p
        pad == (colW - Len(name)) \div 2
    IN Spaces(pad) \o name \o Spaces(colW - pad - Len(name))

RECURSIVE seqHeader(_, _)
seqHeader(participants, colW) ==
    IF participants = <<>> THEN <<>>
    ELSE seqHeaderCell(Head(participants), colW) \o seqHeader(Tail(participants), colW)

\* lifeline(): a row of totalW cells with a bar at every centre inside it.
lifeline(n, colW, totalW) ==
    [x \in 1..totalW |->
        IF \E i \in 0..(n - 1) : centerOf(i, colW) = x - 1 THEN "|" ELSE " "]

\* The row of a self-arrow: the label from the cell right of the centre.
seqSelfRow(row, fcx, label, totalW) ==
    [x \in 1..totalW |->
        IF x - 1 >= fcx + 1 /\ x - 1 - (fcx + 1) < Len(label)
        THEN label[x - 1 - (fcx + 1) + 1] ELSE row[x]]

\* The row of an arrow between two columns: the line, the head, then the
\* label centred on it.
seqArrowRow(row, lx, rx, goRight, lc, label, totalW) ==
    LET mid == IF lx + (rx - lx - Len(label)) \div 2 + 1 < lx + 1 THEN lx + 1
               ELSE lx + (rx - lx - Len(label)) \div 2 + 1
    IN [x \in 1..totalW |->
          IF Len(label) > 0 /\ x - 1 >= mid /\ x - 1 - mid < Len(label)
             /\ x - 1 > lx /\ x - 1 < rx
          THEN label[x - 1 - mid + 1]
          ELSE IF goRight /\ x - 1 = rx THEN ">"
          ELSE IF ~goRight /\ x - 1 = lx THEN "<"
          ELSE IF x - 1 > lx /\ x - 1 < rx THEN lc
          ELSE row[x]]

seqMsgRow(participants, msg, colW, totalW) ==
    LET fi == colIdx(participants, msg.from)
        ti == colIdx(participants, msg.to)
        row == lifeline(Len(participants), colW, totalW)
        lx == centerOf(min(fi, ti), colW)
        rx == centerOf(max(fi, ti), colW)
    IN IF fi = ti
       THEN seqSelfRow(row, lx,
                       IF msg.label # <<>> THEN <<"@", " ">> \o msg.label ELSE <<"@">>,
                       totalW)
       ELSE seqArrowRow(row, lx, rx, fi < ti, IF msg.dashed THEN "~" ELSE "-",
                        IF msg.label # <<>> THEN <<" ">> \o msg.label \o <<" ">> ELSE <<>>,
                        totalW)

\* The message loop: a message between unknown participants is skipped, every
\* other one gives its row and a lifeline row.
RECURSIVE seqMsgRows(_, _, _, _)
seqMsgRows(participants, msgs, colW, totalW) ==
    IF msgs = <<>> THEN <<>>
    ELSE (IF colIdx(participants, Head(msgs).from) < 0 \/ colIdx(participants, Head(msgs).to) < 0
          THEN <<>>
          ELSE <<TrimRightSpaces(seqMsgRow(participants, Head(msgs), colW, totalW)),
                 TrimRightSpaces(lifeline(Len(participants), colW, totalW))>>)
         \o seqMsgRows(participants, Tail(msgs), colW, totalW)

\* strings.TrimRight(out, "\n"): the empty rows at the end go.
RECURSIVE DropEmptyTail(_)
DropEmptyTail(rows) ==
    IF Len(rows) > 1 /\ rows[Len(rows)] = <<>>
    THEN DropEmptyTail(SubSeq(rows, 1, Len(rows) - 1)) ELSE rows

seqRows(participants, msgs, colW, totalW) ==
    DropEmptyTail(<<seqHeader(participants, colW),
                    TrimRightSpaces(lifeline(Len(participants), colW, totalW))>>
                  \o seqMsgRows(participants, msgs, colW, totalW))

asciiSequenceDiagram(participants, msgs, maxW) ==
    IF Len(participants) = 0
    THEN << <<"(", "n", "o", " ", "p", "a", "r", "t", "i", "c", "i", "p", "a", "n", "t", "s", ")">> >>
    ELSE seqRows(participants, msgs, seqColW(participants), seqTotalW(participants, maxW))

\* The diagrams the layouts are driven with: up to MaxParticipants
\* participants named by a letter and a digit, the first possibly by a long
\* name, and at most one message.
LongName == [i \in 1..20 |-> "n"]
SeqParticipants ==
    {[i \in 1..n |-> IF i = 1 /\ long THEN LongName ELSE <<"P">> \o Itoa(i)] :
        n \in 1..MaxParticipants, long \in BOOLEAN}
SeqEnds == {<<"P", "1">>, <<"P", "2">>, <<"P", "4">>}
SeqMsgs ==
    {<<>>} \cup
    {<<[from |-> f, to |-> t, label |-> l, dashed |-> d]>> :
        f \in SeqEnds, t \in SeqEnds, l \in {<<>>, <<"h", "i">>}, d \in BOOLEAN}

InitLayout ==
    /\ files = AllPaths
    /\ m = initialModel(files, RootDir, TRUE)
    /\ inflight = {}
    /\ issued = <<>>
    /\ latest = NoMsg
    /\ last = [rp |-> "none", dl |-> "none", msg |-> NoMsg]
    /\ inserted = <<>>
    /\ probe = NoProbe
    /\ pc \in {"asciiFlowchart", "asciiSequenceDiagram"}

SequenceArtProbe ==
    /\ pc = "asciiSequenceDiagram"
    /\ probe = NoProbe
    /\ \E participants \in SeqParticipants, msgs \in SeqMsgs, maxW \in FlowWidths :
         probe' = [participants |-> participants, msgs |-> msgs, maxW |-> maxW,
                   rows |-> asciiSequenceDiagram(participants, msgs, maxW)]
    /\ UNCHANGED <<m, files, inflight, issued, latest, last, inserted, pc>>

NextLayout == FlowProbe \/ SequenceArtProbe

SpecLayout == InitLayout /\ [][NextLayout]_vars

\* C21: with a maximum width set, no row of the flowchart (the rows are the
\* rows of a grid totalW wide) and no row of the sequence diagram, header row
\* included, is wider than the maximum.
RowsWithinMaxWidth ==
    (probe # NoProbe /\ probe.maxW > 0) =>
        IF pc = "asciiFlowchart" THEN probe.out.totalW <= probe.maxW
        ELSE \A i \in 1..Len(probe.rows) : Len(probe.rows[i]) <= probe.maxW

\* ------------------------------------------------- ranking and source order
\* The nodes the ranking loop takes off the queue, in that order.
RECURSIVE KahnOrder(_, _, _, _)
KahnOrderAfter(succ, cur, r) == <<cur>> \o KahnOrder(succ, r.q, r.rank, r.pending)
KahnOrder(succ, q, rank, pending) ==
    IF q = <<>> THEN <<>>
    ELSE KahnOrderAfter(succ, Head(q), Relax(Head(q), succ[Head(q)], rank, pending, Tail(q)))

\* Graphs over four ids in which A and D have no incoming edge and B and C
\* may lie on a cycle; up to MaxRankEdges edges, in every order and with
\* repetitions.
RankIds == {<<"A">>, <<"B">>, <<"C">>, <<"D">>}
RankEdgeChoices ==
    { [from |-> <<"A">>, to |-> <<"B">>], [from |-> <<"A">>, to |-> <<"C">>],
      [from |-> <<"D">>, to |-> <<"B">>], [from |-> <<"D">>, to |-> <<"C">>],
      [from |-> <<"B">>, to |-> <<"C">>], [from |-> <<"C">>, to |-> <<"B">>],
      [from |-> <<"B">>, to |-> <<"B">>] }
RankEdges == UNION {[1..n -> RankEdgeChoices] : n \in 1..MaxRankEdges}

InitRank ==
    /\ files = AllPaths
    /\ m = initialModel(files, RootDir, TRUE)
    /\ inflight = {}
    /\ issued = <<>>
    /\ latest = NoMsg
    /\ last = [rp |-> "none", dl |-> "none", msg |-> NoMsg]
    /\ inserted = <<>>
    /\ probe = NoProbe
    /\ pc = "flowRank"

RankGraphs == {GraphOf(edges, [id \in RankIds |-> <<>>]) : edges \in RankEdges}

RankProbe ==
    /\ pc = "flowRank"
    /\ probe = NoProbe
    /\ \E g \in RankGraphs :
         \E srcOrder \in SourceOrders(g) :
            probe' = [g |-> g, srcOrder |-> srcOrder,
                      out |-> asciiFlowchart(g, 0, srcOrder),
                      dequeued |-> KahnOrder(succMap(g), srcOrder,
                                             [id \in DOMAIN g.nodes |-> 0], tmpIn(g))]
    /\ UNCHANGED <<m, files, inflight, issued, latest, last, inserted, pc>>

NextRank == RankProbe

SpecRank == InitRank /\ [][NextRank]_vars

DrawnEdges(g, art) == {i \in 1..Len(g.edges) : edgeIsDrawn(art.rank, g.edges[i])}

\* C22: for every graph, cyclic ones included, the ranks, and with them the
\* levels and the set of drawn edges, are the same for every order in which
\* the nodes without incoming edges are first enqueued, and the ranking loop
\* ends, taking no node off the queue twice.
RankIndependentOfSourceOrder ==
    probe # NoProbe =>
        /\ \A other \in {asciiFlowchart(probe.g, 0, o) : o \in SourceOrders(probe.g)} :
              /\ other.rank = probe.out.rank
              /\ other.levels = probe.out.levels
              /\ DrawnEdges(probe.g, other) = DrawnEdges(probe.g, probe.out)
        /\ \A i, j \in 1..Len(probe.dequeued) : i # j => probe.dequeued[i] # probe.dequeued[j]

\* A-->B, D-->C, B-->C, C-->B with D enqueued before A: B and C lie on a cycle
\* and both get rank 1.
CyclicTwoSourcesExample ==
    /\ probe # NoProbe
    /\ probe.g.edges = << [from |-> <<"A">>, to |-> <<"B">>], [from |-> <<"D">>, to |-> <<"C">>],
                          [from |-> <<"B">>, to |-> <<"C">>], [from |-> <<"C">>, to |-> <<"B">>] >>
    /\ probe.srcOrder = << <<"D">>, <<"A">> >>
    /\ probe.dequeued = << <<"D">>, <<"A">> >>
    /\ probe.out.rank = [id \in RankIds |-> IF id \in {<<"B">>, <<"C">>} THEN 1 ELSE 0]

\* ---------------------------------------------------- selection and scroll
\* C23: in every Update step in which the selected index changes, the preview
\* scroll offset is reset to 0.
SelectionChangeResetsScroll ==
    [][m'.selected # m.selected => m'.previewOffset = 0]_vars

\* -------------------------------------------------------- renderDeleteDialog
\* Go's integer division and remainder truncate toward zero.
GoDiv(a, b) == IF a >= 0 THEN a \div b ELSE -((-a) \div b)
GoMod(a, b) == a - b * GoDiv(a, b)

dialogMaxWidth == 60

\* fmt.Sprintf("Delete \"%s\"? [y/n]", fileName)
deleteContent(fileName) ==
    <<"D", "e", "l", "e", "t", "e", " ", DoubleQuote>> \o fileName
      \o <<DoubleQuote, "?", " ", "[", "y", "/", "n", "]">>

\* renderDeleteDialog up to the counts it hands to strings.Repeat: the
\* padding left and right of the question and the padding left of the dialog.
renderDeleteDialog(width, fileName) ==
    LET dialogWidth == min(dialogMaxWidth, width - 4)
        contentLen == Len(deleteContent(fileName))
        padding == GoDiv(dialogWidth - contentLen - 2, 2)
        extra == GoMod(dialogWidth - contentLen - 2, 2)
        sidePad == GoDiv(width - dialogWidth - 2, 2)
    IN [dialogWidth |-> dialogWidth, padding |-> padding, extra |-> extra,
        sidePad |-> sidePad, repeats |-> <<padding, padding + extra, sidePad>>]

InitDialog ==
    /\ files = AllPaths
    /\ m = initialModel(files, RootDir, TRUE)
    /\ inflight = {}
    /\ issued = <<>>
    /\ latest = NoMsg
    /\ last = [rp |-> "none", dl |-> "none", msg |-> NoMsg]
    /\ inserted = <<>>
    /\ probe = NoProbe
    /\ pc = "renderDeleteDialog"

\* View with a delete confirmation pending: the dialog is as wide as the
\* terminal, which View has found to be non-zero.
DialogProbe ==
    /\ pc = "renderDeleteDialog"
    /\ probe = NoProbe
    /\ \E width \in 1..MaxDialogWidth, n \in 1..MaxFileName :
         probe' = [width |-> width, nameLen |-> n,
                   out |-> renderDeleteDialog(width, [i \in 1..n |-> "f"])]
    /\ UNCHANGED <<m, files, inflight, issued, latest, last, inserted, pc>>

NextDialog == DialogProbe

SpecDialog == InitDialog /\ [][NextDialog]_vars

\* C24: for every non-zero terminal width and every length of the target
\* file name, the repeat counts renderDeleteDialog computes (padding,
\* padding + extra, side padding) are all non-negative.
DialogRepeatCountsNonNegative ==
    probe # NoProbe => \A i \in 1..Len(probe.out.repeats) : probe.out.repeats[i] >= 0

\* ------------------------------------------------- published results
\* C25: whenever a delivered result is published as the live preview (its
\* request id is the current one), there is a selection and the fingerprint
\* the result was computed for is the fingerprint of the selected entry and
\* the viewport at the moment of delivery.
PublishedResultIsForSelection ==
    [][\A t \in inflight :
          (/\ inflight' = inflight \ {t}
           /\ inflight' # inflight
           /\ t.requestID = m.requestID)
          => /\ Len(m.entries) > 0
             /\ m.selected < Len(m.entries)
             /\ t.cacheKey = CurrentKey(m)]_vars

\* ------------------------------------------------------------ loading state
\* The computations in flight that carry the current request id.
CurrentInFlight == {t \in inflight : t.requestID = m.requestID}

\* The runtime delivers the message of every command it has started.
SpecLive == Init /\ [][Next]_vars /\ WF_vars(PreviewLoaded)

\* C26: whenever loading is true, a computation carrying the current request
\* id is dispatched and not yet delivered; and if from some point on nothing
\* happens but deliveries, then in the running program loading eventually
\* becomes false and stays false.
LoadingNeverStuck ==
    /\ [](m.loading => CurrentInFlight # {})
    /\ (<>[][PreviewLoaded]_vars) => <>[](Running => ~m.loading)

\* A computation is under way for the selected entry and the pane says so.
LoadingWhileComputing ==
    /\ m.loading
    /\ Len(m.entries) > 0
    /\ \E t \in CurrentInFlight : t.cacheKey = CurrentKey(m)

\* ------------------------------------------------------ delete confirmation
\* C27: a file leaves the disk only in the step that answers a pending delete
\* confirmation, and what leaves is the pending target; the target is the path
\* of the entry selected when the delete key was pressed; and while the
\* confirmation is pending no step changes the selection, the listing, the
\* directory or the target.
TrashOnlyAfterConfirmation ==
    /\ [](m.confirmingDelete =>
            /\ m.selected < Len(m.entries)
            /\ m.deleteTarget = m.entries[m.selected + 1].path)
    /\ [][/\ files' # files =>
               /\ m.confirmingDelete /\ ~m'.confirmingDelete
               /\ files' = moveToTrash(files, m.deleteTarget)
          /\ (~m.confirmingDelete /\ m'.confirmingDelete) =>
               /\ m.selected < Len(m.entries)
               /\ m'.deleteTarget = m.entries[m.selected + 1].path
               /\ m'.selected = m.selected
               /\ m'.entries = m.entries
          /\ (m.confirmingDelete /\ m'.confirmingDelete) =>
               /\ m'.deleteTarget = m.deleteTarget
               /\ m'.selected = m.selected
               /\ m'.entries = m.entries
               /\ m'.allEntries = m.allEntries
               /\ m'.cwd = m.cwd
               /\ files' = files]_vars

\* The second entry was selected, the delete key pressed and the confirmation
\* answered with y: the file is gone, the first entry is still there.
SecondEntryTrashed ==
    /\ pc = "run"
    /\ ~m.confirmingDelete
    /\ <<"/", "a">> \notin files
    /\ <<"/", "d">> \in files

\* --------------------------------------------------------- selection range
\* C28: after any sequence of messages the visible list is empty or
\* 0 <= selected < len(entries), and no handler has indexed entries out of
\* range.
SelectionInRange ==
    /\ pc # "panic"
    /\ \/ Len(m.entries) = 0
       \/ (0 <= m.selected /\ m.selected < Len(m.entries))

\* A file was moved to trash while the hidden files were shown and the
\* selection sits on the last row of the shorter listing.
LastRowSelectedAfterDelete ==
    /\ pc = "run"
    /\ files # AllPaths
    /\ m.showHidden
    /\ Len(m.entries) > 0
    /\ m.selected = Len(m.entries) - 1

\* ------------------------------------------------------- cache bookkeeping
\* cacheOrder lists every key of the cache exactly once and nothing else.
OrderMatchesCache ==
    /\ {m.cacheOrder[i] : i \in 1..Len(m.cacheOrder)} = DOMAIN m.cache
    /\ Len(m.cacheOrder) = Cardinality(DOMAIN m.cache)

\* C29: after any sequence of operations cacheOrder contains every key of the
\* cache exactly once and no other key, and no delivered result is stored
\* under a key the cache already holds.
CacheOrderAgreesAndKeysStoredOnce ==
    /\ []OrderMatchesCache
    /\ [][\A t \in inflight :
             (/\ inflight' = inflight \ {t}
              /\ inflight' # inflight
              /\ last'.dl = "stored")
             => t.cacheKey \notin DOMAIN m.cache]_vars

\* ------------------------------------------------------- file list window
\* Variant: the window is placed wholly above the selected row.
visibleWindowAboveSelected(selected, total, height) ==
    IF total <= height THEN [start |-> 0, end |-> total]
    ELSE LET start == max(0, selected - height)
         IN IF start + height > total
            THEN [start |-> max(0, total - height), end |-> total]
            ELSE [start |-> start, end |-> start + height]

\* visibleWindow returns the [start, end) range of entries to show.
visibleWindow(selected, total, height) ==
    IF total <= height THEN [start |-> 0, end |-> total]
    ELSE LET half == height \div 2
             start == max(0, selected - half)
         IN IF start + height > total
            THEN [start |-> max(0, total - height), end |-> total]
            ELSE [start |-> start, end |-> start + height]

\* The rows left for entries once the scroll indicators have theirs.
windowCapacity(listH, needTop, needBot) ==
    max(1, listH - (IF needTop THEN 1 ELSE 0) - (IF needBot THEN 1 ELSE 0))

\* renderFileList on a non-empty listing with a selection in range, h rows high.
InitWindow ==
    /\ files = AllPaths
    /\ m = initialModel(files, RootDir, TRUE)
    /\ inflight = {}
    /\ issued = <<>>
    /\ latest = NoMsg
    /\ last = [rp |-> "none", dl |-> "none", msg |-> NoMsg]
    /\ inserted = <<>>
    /\ \E total \in 1..MaxEntries, h \in 0..MaxPaneHeight :
         \E selected \in 0..(total - 1) :
           probe = [selected |-> selected, total |-> total, listH |-> max(1, h - 2),
                    start |-> 0, end |-> 0, needTop |-> FALSE, needBot |-> FALSE]
    /\ pc = "renderFileList"

\* First pass: the window assuming no indicators.
WindowFirstPass ==
    /\ pc = "renderFileList"
    /\ \E w \in {visibleWindow(probe.selected, probe.total, probe.listH)} :
         probe' = [probe EXCEPT !.start = w.start, !.end = w.end,
                                !.needTop = w.start > 0,
                                !.needBot = w.end < probe.total]
    /\ pc' = "shrink"
    /\ UNCHANGED <<m, files, inflight, issued, latest, last, inserted>>

\* One pass of the loop that makes room for the indicators.
WindowShrink ==
    /\ pc = "shrink"
    /\ \E w \in {visibleWindow(probe.selected, probe.total,
                               windowCapacity(probe.listH, probe.needTop, probe.needBot))} :
         /\ probe' = [probe EXCEPT !.start = w.start, !.end = w.end,
                                   !.needTop = w.start > 0,
                                   !.needBot = w.end < probe.total]
         /\ pc' = IF (w.start > 0) = probe.needTop /\ (w.end < probe.total) = probe.needBot
                  THEN "drawn" ELSE "shrink"
    /\ UNCHANGED <<m, files, inflight, issued, latest, last, inserted>>

NextWindow == WindowFirstPass \/ WindowShrink

\* The loop is sequential code: it keeps running until it breaks.
SpecWindow == InitWindow /\ [][NextWindow]_vars /\ WF_vars(NextWindow)

\* C30: the loop of renderFileList that shrinks the visible window ends for
\* every selected index, entry count and list height, and the window it ends
\* with contains the selected row.
WindowLoopEndsAroundSelection ==
    /\ <>(pc = "drawn")
    /\ [](pc = "drawn" => (probe.start <= probe.selected /\ probe.selected < probe.end))

\* The loop went round more than once: both indicators are shown, and the
\* need for the top one only appeared after the window had shrunk.
BothIndicatorsAfterShrinking ==
    /\ pc = "drawn"
    /\ probe.needTop /\ probe.needBot
    /\ visibleWindow(probe.selected, probe.total, probe.listH).start = 0
    /\ probe.start <= probe.selected /\ probe.selected < probe.end

====
